---- MODULE Spec2Model ----
(***************************************************************************)
(* Settlement and ledger engine of the PKR stablecoin demo                 *)
(* (core/services.py, api/views_ops.py and the two adapters).              *)
(*                                                                         *)
(* The database is modelled as committed tables plus one write buffer per  *)
(* request (transaction.atomic under READ COMMITTED): a request reads the  *)
(* committed tables and its own buffer, and Commit publishes the buffer.   *)
(* select_for_update on the TokenBalance row is the lock tbLock; a unique  *)
(* index makes an insert wait for an uncommitted insert of the same value  *)
(* and fail with IntegrityError against a committed one.  The seeded demo  *)
(* user is the only user the program ever creates; outside SpecRows it     *)
(* exists from the start, with its WalletAccount and its TokenBalance.     *)
(*                                                                         *)
(* The row locks of the stub tables (ChainStubBalance, WalletStubAccount)  *)
(* are not modelled outside SpecRows: a request writes the value it        *)
(* computed from the row it read, and that value is published at Commit.   *)
(* The waits those locks add can only delay a request or abort it.         *)
(*                                                                         *)
(* Spec is the mint, redeem, bank and ingest paths; SpecRedeem concurrent  *)
(* redeems on a funded balance, SpecSteps the same redeems one statement   *)
(* per step; SpecFail the keyless requests of Spec with an exception at    *)
(* any point after the chain call; SpecHook the chainhook webhook and the  *)
(* payout orchestrator, SpecHookLive one worker redelivering under         *)
(* fairness; SpecGate the allowlist and signature checks of bank_webhook;  *)
(* SpecUnits the two unit conversions on numbers of any length;            *)
(* SpecSigned the keyless requests of Spec with bank amounts of either     *)
(* sign; SpecRows the creation of a user's rows by seed_demo_user and by   *)
(* the first mints, with the waits on the unique indexes and on the        *)
(* ChainStubBalance row that order them.  In the                           *)
(* chainhook path a wallet debit that fails raises before it writes, and   *)
(* the exception is the one process_payout_for_onchain_event catches.      *)
(***************************************************************************)
EXTENDS Integers, Sequences, FiniteSets, Bags, TLC

\* ---------------------------------------------------------------- bounds
MaxJobs == 2
MaxCredits == 1
MaxAttempts == 2

\* ------------------------------------------------------- program constants
TOKEN_DECIMALS == 6
ISSUER_TOKEN == "issuer_token"
USER_TOKEN == "user_token"

Procs == {"p1", "p2"}
NoProc == "none"
NoKey == "none"
NoRef == "none"
DemoUser == "demo"
\* A user whose User row was not made by seed_demo_user: bank_webhook finds
\* such a user by metadata.user_uuid, and creates the WalletAccount and the
\* TokenBalance on the first delivery.
OtherUser == "other"
Users == {DemoUser, OtherUser}
NoUser == "none"

BankIds == {"B1"}
\* The Idempotency-Key header is free text: the value sent here is the one
\* the bank gateway derives for B1, so client and gateway keys can meet.
ClientKeys == {"bank:B1"}

\* A Decimal is coef * 10^(-exp), as Python's decimal module stores it.
Dec(c, e) == [coef |-> c, exp |-> e]

Pow10(n) == IF n <= 0 THEN 1
            ELSE IF n = 1 THEN 10
            ELSE IF n = 2 THEN 100
            ELSE IF n = 3 THEN 1000
            ELSE IF n = 4 THEN 10000
            ELSE IF n = 5 THEN 100000
            ELSE IF n = 6 THEN 1000000
            ELSE IF n = 7 THEN 10000000
            ELSE 100000000

TEN_POW == Pow10(TOKEN_DECIMALS)

\* Decimal.quantize(..., rounding=ROUND_DOWN) truncates toward zero.
TruncDiv(a, b) == IF a >= 0 THEN a \div b ELSE -((-a) \div b)

\* int((amount_pkr * Decimal(TEN_POW)).quantize(Decimal("1"), ROUND_DOWN))
pkr_to_units(d) ==
    IF d.exp <= TOKEN_DECIMALS
    THEN d.coef * Pow10(TOKEN_DECIMALS - d.exp)
    ELSE TruncDiv(d.coef, Pow10(d.exp - TOKEN_DECIMALS))

\* (Decimal(units) / Decimal(TEN_POW)).quantize(Decimal("0.01"), ROUND_DOWN)
units_to_pkr(u) == Dec(TruncDiv(u * 100, TEN_POW), 2)

\* Deliveries: one that qualifies, and one failing each test of the gateway.
BankPayloads ==
    {[direction |-> "credit", status |-> "settled", amount_pkr |-> Dec(1, 2)],
     [direction |-> "credit", status |-> "pending", amount_pkr |-> Dec(1, 2)],
     [direction |-> "debit", status |-> "settled", amount_pkr |-> Dec(1, 2)],
     [direction |-> "credit", status |-> "settled", amount_pkr |-> Dec(0, 2)]}
CreditAmounts == {Dec(2, 2)}
\* ingest from the start of the log
Sinces == {0}
RedeemAmounts == {-10000, 20000}

\* gen_provider_tx_id: the k-th WalletStubTx gets a fresh id.
WalletTxId(k) == IF k = 1 THEN "W1" ELSE IF k = 2 THEN "W2"
                 ELSE IF k = 3 THEN "W3" ELSE IF k = 4 THEN "W4" ELSE "W5"

\* Every demo credit and every committed redeem adds one WalletStubTx.
WalletIds == {WalletTxId(k) : k \in 1..(MaxCredits + MaxJobs)}
PTX == WalletIds \cup BankIds

\* A key the JSON object does not carry.
Absent == "absent"

\* int(x) of the parser, on the texts the deliveries carry: the texts it
\* converts, with their values.
IntTexts == ("0" :> 0) @@ ("1" :> 1) @@ ("12345" :> 12345)

\* The burn events a delivery may carry, as the JSON gives them: the two
\* well-formed events of transaction T1, and the second one with its txid,
\* its event_index or its address missing, with an amount that is no
\* integer, and with an address that is the email of no user.
Burn(txid, index, address, amount) ==
    [txid |-> txid, event_index |-> index,
     user_address |-> address, amount_units |-> amount]

WellFormedBurns ==
    {Burn("T1", "0", "ST1", "12345"), Burn("T1", "1", "ST1", "12345")}

MalformedBurns ==
    {Burn(Absent, "1", "ST1", "12345"),
     Burn("T1", Absent, "ST1", "12345"),
     Burn("T1", "1", Absent, "12345"),
     Burn("T1", "1", "ST1", "abc"),
     Burn("T1", "1", "ghost@example.com", "12345")}

RawBurns == WellFormedBurns \cup MalformedBurns

\* The two payload shapes of _parse_chainhook_burns.
Formats == {"simple", "chainhook"}

\* The batches of one delivery, and those of the second worker: one
\* well-formed event in the simple shape, which is what it takes to race
\* the first worker on a (txid, event_index) pair.
Batches ==
    {<<a>> : a \in RawBurns} \cup {<<a, b>> : a \in RawBurns, b \in RawBurns}
RacingBatches == {<<a>> : a \in WellFormedBurns}

\* The (txid, event_index) pairs an OnchainEvent row can carry.
Pairs == {<<"T1", 0>>, <<"T1", 1>>}

VARIABLES
    chainJobs,   \* ChainJob rows (committed)
    ledger,      \* LedgerEntry rows (committed), a bag
    tb,          \* TokenBalance.balance_units of the demo user (committed)
    chainBal,    \* ChainStubBalance.balance_units (committed)
    ets,         \* ExternalTransaction by provider_tx_id (committed)
    walletBal,   \* WalletStubAccount.balance_pkr, in hundredths (committed)
    walletTxs,   \* WalletStubTx log (committed)
    tbLock,      \* holder of the TokenBalance row lock
    pc,          \* position of each request
    tx,          \* parameters, locals and write buffer of each request
    last,        \* the response of the request that ended last
    mintCalls,   \* ChainAdapter.mint invocations per provider_tx_id:
                 \* 0, 1, or 2 for "more than once"
    jobCap,      \* the number of ChainJob rows a run stops at (never changes)
    events,      \* OnchainEvent rows (committed)
    payouts,     \* PayoutJob rows (committed)
    debits,      \* wallet debits made per (txid, event_index): 0, 1, or 2
                 \* for "more than once"
    hpc,         \* position of each stacks_chainhook_webhook request
    hreq,        \* locals and write buffer of each chainhook request
    hlast,       \* the response of the chainhook request that ended last
    settings,    \* BANK_WEBHOOK_SECRET and BANK_WEBHOOK_IP_ALLOWLIST (never
                 \* change)
    conv,        \* a conversion between fiat and units: its argument and
                 \* the values computed from it so far
    userRows,    \* the users with a User row (committed)
    waRows,      \* WalletAccount rows per user (committed)
    tbRows,      \* TokenBalance rows per user (committed)
    stubRows,    \* the users with a ChainStubBalance row (committed)
    work         \* position and uncommitted inserts of each request that
                 \* may create the rows of a user

\* The tables that say which rows exist for a user, and the requests that
\* create them.
rowVars == <<userRows, waRows, tbRows, stubRows, work>>

vars == <<chainJobs, ledger, tb, chainBal, ets, walletBal, walletTxs,
          tbLock, pc, tx, last, mintCalls, jobCap,
          events, payouts, debits, hpc, hreq, hlast, settings, conv,
          rowVars>>

\* The state of the chainhook path, with the settings and the conversion
\* under study: what no bank, mint, redeem or ingest step changes.
hookVars == <<events, payouts, debits, hpc, hreq, hlast, settings, conv,
              rowVars>>

db == <<chainJobs, ledger, tb, chainBal, ets, walletBal, walletTxs>>

NoET == [status |-> "none", direction |-> "none", amount_pkr |-> Dec(0, 2)]

BlankTx ==
    [op |-> "none", ptx |-> "none", key |-> NoKey, amt |-> 0,
     jobs |-> << >>, ledger |-> << >>, tb |-> {}, chain |-> {},
     ets |-> [x \in PTX |-> NoET], wbal |-> {}, wtxs |-> << >>,
     todo |-> << >>, calls |-> 0, rsv |-> 0, tbObj |-> 0]

\* A response: the operation, its key, the outcome, the ChainJob it returned
\* and the number of chain calls the request made.
Response(op, key, out, job, calls) ==
    [op |-> op, key |-> key, out |-> out, job |-> job, calls |-> calls]

NoResponse == Response("none", NoKey, "none", 0, 0)

\* A chainhook request that is not running, and no chainhook response yet.
\* burns: the parsed events still to go; processed: the counter of the loop;
\* ev, job: the rows written and not yet committed; asked: the pairs of the
\* batch's well-formed events; seen: whether every parsed event was stored
\* already when the delivery arrived.
BlankReq ==
    [burns |-> << >>, processed |-> 0, ev |-> {}, job |-> {},
     asked |-> {}, seen |-> FALSE]

\* A response: the HTTP status, the "events" count, and the pairs of the
\* well-formed events the delivery carried.
HookResponse(status, n, asked) ==
    [status |-> status, events |-> n, asked |-> asked]

NoHookResponse == HookResponse(0, 0, {})

InitHook ==
    /\ events = {}
    /\ payouts = {}
    /\ debits = [e \in Pairs |-> 0]
    /\ hpc = [p \in Procs |-> "idle"]
    /\ hreq = [p \in Procs |-> BlankReq]
    /\ hlast = NoHookResponse

\* The secret the bank signs with, a secret it does not sign with, and no
\* secret configured.
BankSecret == "s3cret"
OtherSecret == "guess"
NoSecret == ""

\* The settings of a deployment that checks signatures and has no allowlist.
SignedSettings == [secret |-> BankSecret, allowlist |-> << >>]

\* No conversion under study.
NoConv == [of |-> "none", arg |-> << >>, steps |-> << >>]

\* A request that is not running.  user: the user it works for; newUser,
\* newWa, newTb, newStub: the rows it inserted and has not committed;
\* stubLock: it wrote the ChainStubBalance row of the user; raced: another
\* request for the same user was running when it started.
BlankWork ==
    [pc |-> "idle", user |-> NoUser, newUser |-> FALSE, newWa |-> FALSE,
     newTb |-> FALSE, newStub |-> FALSE, stubLock |-> FALSE, raced |-> FALSE]

\* The rows after seed_demo_user: the demo user with its WalletAccount and
\* its TokenBalance.
InitSeeded ==
    /\ userRows = {DemoUser}
    /\ waRows = [u \in Users |-> IF u = DemoUser THEN 1 ELSE 0]
    /\ tbRows = [u \in Users |-> IF u = DemoUser THEN 1 ELSE 0]
    /\ stubRows = {}
    /\ work = [p \in Procs |-> BlankWork]

\* No job, ledger row, credit or delivery yet, and no request running.
InitBank ==
    /\ chainJobs = {}
    /\ ledger = EmptyBag
    /\ tb = 0
    /\ chainBal = 0
    /\ ets = [x \in PTX |-> NoET]
    /\ walletBal = 0
    /\ walletTxs = << >>
    /\ tbLock = NoProc
    /\ pc = [p \in Procs |-> "idle"]
    /\ tx = [p \in Procs |-> BlankTx]
    /\ last = NoResponse
    /\ mintCalls = [x \in PTX |-> 0]
    /\ jobCap = MaxJobs

\* The database right after seed_demo_user, with no request running.
InitRows == InitHook /\ InitSeeded /\ InitBank

InitData == InitRows /\ conv = NoConv

Init == InitData /\ settings = SignedSettings

\* ------------------------------------------------------------ ORM helpers

RECURSIVE BagOfSeq(_)
BagOfSeq(s) ==
    IF s = << >> THEN EmptyBag
    ELSE SetToBag({Head(s)}) (+) BagOfSeq(Tail(s))

\* Faulty variant: the lookup by key is skipped.
KeyNeverLookedUp(key) == FALSE

\* ChainJob.objects.filter(idempotency_key=key).first(), guarded by "if key"
IdemHit(key) ==
    key # NoKey /\ \E j \in chainJobs : j.idempotency_key = key

\* Faulty variant: the oldest job is returned, whatever its key.
OldestJob(key) == CHOOSE j \in chainJobs : \A i \in chainJobs : j.id <= i.id

JobByKey(key) == CHOOSE j \in chainJobs : j.idempotency_key = key

\* An uncommitted ChainJob insert of another request holds the unique index
\* entry of its key: an insert of the same key waits for that request to end.
KeyPendingElsewhere(p, key) ==
    /\ key # NoKey
    /\ \E q \in Procs \ {p} :
          \E i \in 1..Len(tx[q].jobs) : tx[q].jobs[i].idempotency_key = key

\* The unique index on ChainJob.idempotency_key rejects the insert.  The
\* IntegrityError is raised inside transaction.atomic, which marks the
\* transaction for rollback: the handler's ChainJob.objects.get then raises
\* TransactionManagementError and the request ends with everything undone.
KeyConflict(key) == IdemHit(key)

EtPendingElsewhere(p, x) ==
    \E q \in Procs \ {p} : tx[q].ets[x] # NoET /\ ets[x] = NoET

NewJob(type, amount, ref, key) ==
    [user |-> DemoUser, job_type |-> type, amount_units |-> amount,
     ref_external_tx |-> ref, idempotency_key |-> key]

\* Faulty variant: the user row of the pair is left out.
MintLedgerIssuerOnly(amount, ref) ==
    << [user |-> NoUser, side |-> "credit", account |-> ISSUER_TOKEN,
        amount_units |-> amount, ref_type |-> "mint", ref_id |-> ref] >>

\* bulk_create of a mint: issuer credit, user debit
MintLedgerRows(amount, ref) ==
    << [user |-> NoUser, side |-> "credit", account |-> ISSUER_TOKEN,
        amount_units |-> amount, ref_type |-> "mint", ref_id |-> ref],
       [user |-> DemoUser, side |-> "debit", account |-> USER_TOKEN,
        amount_units |-> amount, ref_type |-> "mint", ref_id |-> ref] >>

\* Faulty variant: both rows of the pair are written on the credit side.
BurnLedgerSameSide(amount, ref) ==
    << [user |-> DemoUser, side |-> "credit", account |-> USER_TOKEN,
        amount_units |-> amount, ref_type |-> "burn", ref_id |-> ref],
       [user |-> NoUser, side |-> "credit", account |-> ISSUER_TOKEN,
        amount_units |-> amount, ref_type |-> "burn", ref_id |-> ref] >>

\* bulk_create of a burn: user credit, issuer debit
BurnLedgerRows(amount, ref) ==
    << [user |-> DemoUser, side |-> "credit", account |-> USER_TOKEN,
        amount_units |-> amount, ref_type |-> "burn", ref_id |-> ref],
       [user |-> NoUser, side |-> "debit", account |-> ISSUER_TOKEN,
        amount_units |-> amount, ref_type |-> "burn", ref_id |-> ref] >>

\* Faulty variant: the balance is saved without the amount added.
BalanceUntouched(balance, amount) == balance

\* Faulty variant: a burn adds to the balance.
BalanceRaisedByBurn(balance, amount) == balance + amount

\* tb.balance_units += amount_units
BalanceAfterMint(balance, amount) == balance + amount

\* tb.balance_units -= amount_units
BalanceAfterBurn(balance, amount) == balance - amount

\* Faulty variant: the row is read without waiting for its lock.
LockIgnored(holder) == TRUE

\* select_for_update() returns once no other request holds the row.
LockFree(holder) == holder = NoProc

\* Faulty variant: the balance is never compared with the amount.
BalanceNotChecked(balance, amount) == FALSE

\* Faulty variant: a redeem of the whole balance is refused as well.
WholeBalanceRefused(balance, amount) == balance <= amount

\* if tb.balance_units < amount_units: raise ValidationError
InsufficientBalance(balance, amount) == balance < amount

\* The chain stub row as this request sees it: its own write, else committed.
ChainSeen(p) == IF tx[p].chain = {} THEN chainBal
                ELSE CHOOSE v \in tx[p].chain : TRUE

TbSeen(p) == IF tx[p].tb = {} THEN tb ELSE CHOOSE v \in tx[p].tb : TRUE

WalletSeen(p) == IF tx[p].wbal = {} THEN walletBal
                 ELSE CHOOSE v \in tx[p].wbal : TRUE

\* ChainAdapter.mint / ChainAdapter.burn: read the row, write the new value.
ChainAfterMint(balance, amount) == balance + amount
ChainAfterBurn(balance, amount) == balance - amount

\* One more invocation of the chain mint for provider transaction x.
Called(x) == [mintCalls EXCEPT ![x] = IF @ < 2 THEN @ + 1 ELSE @]

RECURSIVE SumRsv(_)
SumRsv(S) ==
    IF S = {} THEN 0
    ELSE LET q == CHOOSE q \in S : TRUE IN tx[q].rsv + SumRsv(S \ {q})

\* Room left for n more ChainJob rows.
JobBudget(n) == Cardinality(chainJobs) + SumRsv(Procs) + n <= jobCap

\* Room left for one more demo credit.
CreditBudget ==
    Cardinality({i \in 1..Len(walletTxs) :
                    walletTxs[i].direction = "credit"}) < MaxCredits

\* Faulty variant: the balance the request wrote outlives its rollback.
RollbackKeepsBalance(p, out) ==
    /\ pc' = [pc EXCEPT ![p] = "idle"]
    /\ last' = Response(tx[p].op, tx[p].key, out, 0, tx[p].calls)
    /\ tx' = [tx EXCEPT ![p] = BlankTx]
    /\ tbLock' = IF tbLock = p THEN NoProc ELSE tbLock
    /\ tb' = TbSeen(p)
    /\ UNCHANGED <<chainJobs, ledger, chainBal, ets, walletBal, walletTxs,
                   mintCalls, jobCap>>

\* The request of p ends: its buffer is dropped, its lock released.
Finish(p, out, job) ==
    /\ pc' = [pc EXCEPT ![p] = "idle"]
    /\ last' = Response(tx[p].op, tx[p].key, out, job, tx[p].calls)
    /\ tx' = [tx EXCEPT ![p] = BlankTx]
    /\ tbLock' = IF tbLock = p THEN NoProc ELSE tbLock

\* An exception leaves the atomic block: everything it wrote is rolled back.
Rollback(p, out) ==
    /\ Finish(p, out, 0)
    /\ UNCHANGED <<db, mintCalls, jobCap>>

\* A request that ends in its first step, before it wrote anything.
Reply(p, op, key, out, job) ==
    /\ last' = Response(op, key, out, job, 0)
    /\ UNCHANGED <<db, tbLock, pc, tx, mintCalls, jobCap>>

\* The server hands a request to its first free worker.
Free(p) == pc[p] = "idle" /\ (p = "p2" => pc["p1"] # "idle")

\* ----------------------------------------------------- DemoServices.redeem

RedeemBegin(p, amount, key) ==
    /\ Free(p)
    /\ IF IdemHit(key)
       THEN Reply(p, "redeem", key, "ok", JobByKey(key).id)
       ELSE /\ JobBudget(1)
            /\ pc' = [pc EXCEPT ![p] = "r_lock"]
            /\ tx' = [tx EXCEPT ![p] =
                        [BlankTx EXCEPT !.op = "redeem", !.key = key,
                                        !.amt = amount, !.rsv = 1]]
            /\ UNCHANGED <<db, tbLock, last, mintCalls, jobCap>>

RedeemLock(p) ==
    /\ pc[p] = "r_lock"
    /\ LockFree(tbLock)
    /\ IF InsufficientBalance(tb, tx[p].amt)
       THEN /\ Rollback(p, "insufficient_balance")
       ELSE /\ tbLock' = p
            /\ tx' = [tx EXCEPT ![p].tbObj = tb,
                                ![p].chain =
                                    {ChainAfterBurn(ChainSeen(p), tx[p].amt)},
                                ![p].calls = tx[p].calls + 1]
            /\ pc' = [pc EXCEPT ![p] = "r_create"]
            /\ UNCHANGED <<db, last, mintCalls, jobCap>>

RedeemCreate(p) ==
    /\ pc[p] = "r_create"
    /\ ~KeyPendingElsewhere(p, tx[p].key)
    /\ IF KeyConflict(tx[p].key)
       THEN /\ Rollback(p, "TransactionManagementError")
       ELSE /\ tx' = [tx EXCEPT
                 ![p].jobs = Append(tx[p].jobs,
                     NewJob("burn", tx[p].amt, NoRef, tx[p].key)),
                 ![p].tb = {BalanceAfterBurn(tx[p].tbObj, tx[p].amt)},
                 ![p].ledger = tx[p].ledger \o
                     BurnLedgerRows(tx[p].amt, Len(tx[p].jobs) + 1),
                 ![p].wbal = {WalletSeen(p) - units_to_pkr(tx[p].amt).coef},
                 ![p].wtxs = Append(tx[p].wtxs,
                     [direction |-> "debit",
                      amount_pkr |-> units_to_pkr(tx[p].amt)])]
            /\ pc' = [pc EXCEPT ![p] = "commit"]
            /\ UNCHANGED <<db, tbLock, last, mintCalls, jobCap>>

\* ---------------------------------------- DemoServices.mint_from_provider_tx

MintBegin(p, ptx, key) ==
    /\ Free(p)
    /\ IF ets[ptx] = NoET
       THEN Reply(p, "mint", NoKey, "DoesNotExist", 0)
       ELSE IF IdemHit(key)
       THEN Reply(p, "mint", key, "ok", JobByKey(key).id)
       ELSE /\ JobBudget(1)
            /\ pc' = [pc EXCEPT ![p] = "m_create"]
            /\ tx' = [tx EXCEPT ![p] =
                 [BlankTx EXCEPT
                    !.op = "mint", !.key = key, !.ptx = ptx,
                    !.amt = pkr_to_units(ets[ptx].amount_pkr),
                    !.rsv = 1, !.calls = 1,
                    !.chain = {ChainAfterMint(chainBal,
                                 pkr_to_units(ets[ptx].amount_pkr))}]]
            /\ mintCalls' = Called(ptx)
            /\ UNCHANGED <<db, tbLock, last, jobCap>>

MintCreate(p) ==
    /\ pc[p] = "m_create"
    /\ ~KeyPendingElsewhere(p, tx[p].key)
    /\ IF KeyConflict(tx[p].key)
       THEN /\ Rollback(p, "TransactionManagementError")
       ELSE /\ tx' = [tx EXCEPT ![p].jobs = Append(tx[p].jobs,
                        NewJob("mint", tx[p].amt, tx[p].ptx, tx[p].key))]
            /\ pc' = [pc EXCEPT ![p] = "m_lock"]
            /\ UNCHANGED <<db, tbLock, last, mintCalls, jobCap>>

MintLock(p) ==
    /\ pc[p] = "m_lock"
    /\ LockFree(tbLock)
    /\ tbLock' = p
    /\ tx' = [tx EXCEPT
                ![p].tb = {BalanceAfterMint(tb, tx[p].amt)},
                ![p].ledger = tx[p].ledger \o
                    MintLedgerRows(tx[p].amt, Len(tx[p].jobs))]
    /\ pc' = [pc EXCEPT ![p] = "commit"]
    /\ UNCHANGED <<db, last, mintCalls, jobCap>>

\* ------------------------------------------------------------ bank_webhook

\* f"bank:{provider_tx_id}"
BankKey(x) == IF x = "B1" THEN "bank:B1" ELSE "bank:other"

\* direction != "credit" or status != "settled" or amount_pkr <= 0
NonQualifying(direction, status, amount) ==
    direction # "credit" \/ status # "settled" \/ amount.coef <= 0

\* Faulty variant: the status of the stored row is not looked at.
StatusNotLookedAt(et) == FALSE

\* if et.status == ExternalTransactionStatus.MINTED
AlreadyMinted(et) == et.status = "MINTED"

\* if amount_units <= 0: raise ValueError
AmountRejected(units) == units <= 0

\* The row get_or_create returns: the committed one, else the one created
\* with the delivery's fields and the given status.
EtGetOrCreate(x, direction, amount, status) ==
    IF ets[x] # NoET THEN ets[x]
    ELSE [status |-> status, direction |-> direction, amount_pkr |-> amount]

BankBegin(p, x, direction, status, amount) ==
    /\ Free(p)
    /\ ets[x] = NoET => ~EtPendingElsewhere(p, x)
    /\ IF NonQualifying(direction, status, amount)
       THEN /\ ets' = [ets EXCEPT ![x] =
                         EtGetOrCreate(x, direction, amount, "IGNORED")]
            /\ last' = Response("bank", NoKey, "ignored", 0, 0)
            /\ UNCHANGED <<chainJobs, ledger, tb, chainBal, walletBal,
                           walletTxs, tbLock, pc, tx, mintCalls, jobCap>>
       ELSE LET et == EtGetOrCreate(x, direction, amount, "RECEIVED")
                units == pkr_to_units(et.amount_pkr) IN
            IF AlreadyMinted(et)
            THEN Reply(p, "bank", NoKey, "idempotent", 0)
            ELSE IF AmountRejected(units)
            THEN Reply(p, "bank", NoKey, "error400", 0)
            ELSE /\ JobBudget(1)
                 /\ pc' = [pc EXCEPT ![p] = "b_create"]
                 /\ tx' = [tx EXCEPT ![p] =
                      [BlankTx EXCEPT
                         !.op = "bank", !.key = BankKey(x), !.ptx = x,
                         !.amt = units, !.rsv = 1, !.calls = 1,
                         !.ets = [y \in PTX |->
                                    IF y = x /\ ets[x] = NoET THEN et
                                    ELSE NoET],
                         !.chain = {ChainAfterMint(chainBal, units)}]]
                 /\ mintCalls' = Called(x)
                 /\ UNCHANGED <<db, tbLock, last, jobCap>>

\* perform_mint_for_external_tx: ChainJob.objects.create and its handler
BankCreate(p) ==
    /\ pc[p] = "b_create"
    /\ ~KeyPendingElsewhere(p, tx[p].key)
    /\ IF KeyConflict(tx[p].key)
       THEN /\ Rollback(p, "error400")
       ELSE /\ tx' = [tx EXCEPT ![p].jobs = Append(tx[p].jobs,
                        NewJob("mint", tx[p].amt, tx[p].ptx, tx[p].key))]
            /\ pc' = [pc EXCEPT ![p] = "b_lock"]
            /\ UNCHANGED <<db, tbLock, last, mintCalls, jobCap>>

\* Faulty variant: the status of the row is left as it was.
EtLeftAsItWas(et) == et

\* external_tx.status = MINTED; save(update_fields=["status"])
EtFlipped(et) == [et EXCEPT !.status = "MINTED"]

EtSeen(p, x) == IF tx[p].ets[x] # NoET THEN tx[p].ets[x] ELSE ets[x]

BankLock(p) ==
    /\ pc[p] = "b_lock"
    /\ LockFree(tbLock)
    /\ tbLock' = p
    /\ tx' = [tx EXCEPT
                ![p].tb = {BalanceAfterMint(tb, tx[p].amt)},
                ![p].ledger = tx[p].ledger \o
                    MintLedgerRows(tx[p].amt, Len(tx[p].jobs)),
                ![p].ets = [tx[p].ets EXCEPT
                              ![tx[p].ptx] = EtFlipped(EtSeen(p, tx[p].ptx))]]
    /\ pc' = [pc EXCEPT ![p] = "commit"]
    /\ UNCHANGED <<db, last, mintCalls, jobCap>>

\* ------------------------------------- wallet_credit and ingest_since

\* WalletAdapter.credit: append the provider transaction, raise the balance.
WalletCredit(amount) ==
    /\ CreditBudget
    /\ walletTxs' = Append(walletTxs,
          [provider_tx_id |-> WalletTxId(Len(walletTxs) + 1),
           direction |-> "credit", amount_pkr |-> amount])
    /\ walletBal' = walletBal + amount.coef
    /\ last' = Response("credit", NoKey, "ok", 0, 0)
    /\ UNCHANGED <<chainJobs, ledger, tb, chainBal, ets, tbLock, pc, tx,
                   mintCalls, jobCap>>

\* WalletAdapter.list_transactions(acct, since): the log from `since` on.
list_transactions(since) == SubSeq(walletTxs, since + 1, Len(walletTxs))

RECURSIVE CountNewCredits(_)
CountNewCredits(s) ==
    IF s = << >> THEN 0
    ELSE (IF Head(s).direction = "credit" /\ ets[Head(s).provider_tx_id] = NoET
          THEN 1 ELSE 0) + CountNewCredits(Tail(s))

IngestBegin(p, since) ==
    /\ Free(p)
    /\ LET txs == list_transactions(since) IN
       IF txs = << >>
       THEN Reply(p, "ingest", NoKey, "ok", 0)
       ELSE /\ JobBudget(CountNewCredits(txs))
            /\ pc' = [pc EXCEPT ![p] = "i_loop"]
            /\ tx' = [tx EXCEPT ![p] =
                        [BlankTx EXCEPT !.op = "ingest", !.todo = txs,
                                        !.rsv = CountNewCredits(txs)]]
            /\ UNCHANGED <<db, tbLock, last, mintCalls, jobCap>>

AfterLoop(rest) == IF rest = << >> THEN "commit" ELSE "i_loop"

\* ExternalTransaction.objects.create(...) and, for a credit,
\* mint_from_provider_tx(user, et) up to its ChainJob row.
IngestCreate(p) ==
    LET t == Head(tx[p].todo)
        x == t.provider_tx_id
        et == [status |-> "RECEIVED", direction |-> t.direction,
               amount_pkr |-> t.amount_pkr]
        units == pkr_to_units(t.amount_pkr) IN
    IF et.direction = "credit"
    THEN /\ tx' = [tx EXCEPT
               ![p].ets = [tx[p].ets EXCEPT ![x] = et],
               ![p].chain = {ChainAfterMint(ChainSeen(p), units)},
               ![p].calls = tx[p].calls + 1,
               ![p].jobs = Append(tx[p].jobs,
                                  NewJob("mint", units, x, NoKey))]
         /\ mintCalls' = Called(x)
         /\ pc' = [pc EXCEPT ![p] = "i_lock"]
         /\ UNCHANGED <<db, tbLock, last, jobCap>>
    ELSE /\ tx' = [tx EXCEPT
               ![p].ets = [tx[p].ets EXCEPT ![x] = et],
               ![p].todo = Tail(tx[p].todo)]
         /\ pc' = [pc EXCEPT ![p] = AfterLoop(Tail(tx[p].todo))]
         /\ UNCHANGED <<db, tbLock, last, mintCalls, jobCap>>

\* Faulty variant: every provider transaction counts as new.
EtNeverExists(p, x) == FALSE

\* if not ExternalTransaction.objects.filter(provider_tx_id=...).exists()
EtExists(p, x) == ets[x] # NoET \/ tx[p].ets[x] # NoET

IngestStep(p) ==
    /\ pc[p] = "i_loop"
    /\ LET x == Head(tx[p].todo).provider_tx_id IN
       IF EtExists(p, x)
       THEN /\ tx' = [tx EXCEPT ![p].todo = Tail(tx[p].todo)]
            /\ pc' = [pc EXCEPT ![p] = AfterLoop(Tail(tx[p].todo))]
            /\ UNCHANGED <<db, tbLock, last, mintCalls, jobCap>>
       ELSE IF EtPendingElsewhere(p, x)
       THEN /\ pc' = [pc EXCEPT ![p] = "i_blocked"]
            /\ UNCHANGED <<db, tx, tbLock, last, mintCalls, jobCap>>
       ELSE IngestCreate(p)

\* The insert that waited on another request's uncommitted row.
IngestBlocked(p) ==
    /\ pc[p] = "i_blocked"
    /\ LET x == Head(tx[p].todo).provider_tx_id IN
       /\ ~EtPendingElsewhere(p, x)
       /\ IF ets[x] # NoET
          THEN /\ Rollback(p, "IntegrityError")
             ELSE IngestCreate(p)

\* mint_from_provider_tx from its select_for_update on
IngestLock(p) ==
    /\ pc[p] = "i_lock"
    /\ tbLock \in {NoProc, p}
    /\ tbLock' = p
    /\ LET units == pkr_to_units(Head(tx[p].todo).amount_pkr) IN
       tx' = [tx EXCEPT
                ![p].tb = {BalanceAfterMint(TbSeen(p), units)},
                ![p].ledger = tx[p].ledger \o
                    MintLedgerRows(units, Len(tx[p].jobs)),
                ![p].todo = Tail(tx[p].todo)]
    /\ pc' = [pc EXCEPT ![p] = AfterLoop(Tail(tx[p].todo))]
    /\ UNCHANGED <<db, last, mintCalls, jobCap>>

\* ---------------------------------------------------------------- deadlock

LockSteps == {"r_lock", "m_lock", "b_lock", "i_lock"}
CreateSteps == {"r_create", "m_create", "b_create"}

HasPendingKey(q, key) ==
    key # NoKey /\ \E i \in 1..Len(tx[q].jobs) :
                      tx[q].jobs[i].idempotency_key = key

WaitsFor(p, q) ==
    \/ pc[p] \in LockSteps /\ tbLock = q
    \/ pc[p] \in CreateSteps /\ HasPendingKey(q, tx[p].key)
    \/ /\ pc[p] = "i_blocked"
       /\ tx[q].ets[Head(tx[p].todo).provider_tx_id] # NoET

\* The database breaks a wait cycle by failing one of the two requests.
DeadlockAbort(p) ==
    /\ \E q \in Procs \ {p} : WaitsFor(p, q) /\ WaitsFor(q, p)
    /\ Rollback(p, "deadlock")

\* ------------------------------------------------------------------ commit

\* Rows get their primary keys as the buffer is published: the i-th job of
\* the request becomes job n + i, and its ledger rows point at it.
CommittedJobs(p, n) ==
    {[id |-> n + i] @@ tx[p].jobs[i] : i \in 1..Len(tx[p].jobs)}

CommittedRows(p, n) ==
    [i \in 1..Len(tx[p].ledger) |->
        [tx[p].ledger[i] EXCEPT !.ref_id = n + tx[p].ledger[i].ref_id]]

CommittedWalletTxs(p, n) ==
    [i \in 1..Len(tx[p].wtxs) |->
        [provider_tx_id |-> WalletTxId(n + i)] @@ tx[p].wtxs[i]]

\* Faulty variant: the rows of the request replace the ledger.
LedgerReplaced(p, n) == BagOfSeq(CommittedRows(p, n))

\* bulk_create inserts the rows of the request; no statement of the program
\* updates or deletes a LedgerEntry.
LedgerAfter(p, n) == ledger (+) BagOfSeq(CommittedRows(p, n))

Commit(p) ==
    /\ pc[p] = "commit"
    /\ LET n == Cardinality(chainJobs) IN
       /\ chainJobs' = chainJobs \cup CommittedJobs(p, n)
       /\ ledger' = LedgerAfter(p, n)
       /\ Finish(p, "ok", IF tx[p].jobs = << >> THEN 0 ELSE n + 1)
    /\ tb' = TbSeen(p)
    /\ chainBal' = ChainSeen(p)
    /\ ets' = [x \in PTX |-> IF tx[p].ets[x] # NoET THEN tx[p].ets[x]
                              ELSE ets[x]]
    /\ walletBal' = WalletSeen(p)
    /\ walletTxs' = walletTxs \o CommittedWalletTxs(p, Len(walletTxs))
    /\ UNCHANGED <<mintCalls, jobCap>>

Next ==
    \/ \E p \in Procs, a \in RedeemAmounts, k \in ClientKeys \cup {NoKey} :
          RedeemBegin(p, a, k) /\ UNCHANGED hookVars
    \/ \E p \in Procs : RedeemLock(p) /\ UNCHANGED hookVars
    \/ \E p \in Procs : RedeemCreate(p) /\ UNCHANGED hookVars
    \/ \E p \in Procs, x \in PTX, k \in ClientKeys \cup {NoKey} :
          MintBegin(p, x, k) /\ UNCHANGED hookVars
    \/ \E p \in Procs : MintCreate(p) /\ UNCHANGED hookVars
    \/ \E p \in Procs : MintLock(p) /\ UNCHANGED hookVars
    \/ \E p \in Procs, x \in BankIds, d \in BankPayloads :
          BankBegin(p, x, d.direction, d.status, d.amount_pkr) /\ UNCHANGED hookVars
    \/ \E p \in Procs : BankCreate(p) /\ UNCHANGED hookVars
    \/ \E p \in Procs : BankLock(p) /\ UNCHANGED hookVars
    \/ \E a \in CreditAmounts : WalletCredit(a) /\ UNCHANGED hookVars
    \/ \E p \in Procs, s \in Sinces : IngestBegin(p, s) /\ UNCHANGED hookVars
    \/ \E p \in Procs : IngestStep(p) /\ UNCHANGED hookVars
    \/ \E p \in Procs : IngestBlocked(p) /\ UNCHANGED hookVars
    \/ \E p \in Procs : IngestLock(p) /\ UNCHANGED hookVars
    \/ \E p \in Procs : DeadlockAbort(p) /\ UNCHANGED hookVars
    \/ \E p \in Procs : Commit(p) /\ UNCHANGED hookVars

Spec == Init /\ [][Next]_vars

\* ------------------------------------- concurrent redeems on one balance

\* The demo credit that funds the balance the redeems draw on.
StartCredit == Dec(2, 2)
StartBalance == pkr_to_units(StartCredit)

\* Each redeem asks for half of the starting balance or for all of it.
ConcurrentAmounts == {pkr_to_units(Dec(1, 2)), StartBalance}

\* A key of its own for the requests of each worker.
OwnKey(p) == IF p = "p1" THEN "r1" ELSE "r2"

\* The state after wallet_credit of StartCredit and one ingest_since.
InitRedeem ==
    /\ InitHook
    /\ InitSeeded
    /\ conv = NoConv
    /\ settings = SignedSettings
    /\ walletTxs = << [provider_tx_id |-> WalletTxId(1),
                       direction |-> "credit", amount_pkr |-> StartCredit] >>
    /\ walletBal = StartCredit.coef
    /\ ets = [x \in PTX |->
                IF x = WalletTxId(1)
                THEN [status |-> "RECEIVED", direction |-> "credit",
                      amount_pkr |-> StartCredit]
                ELSE NoET]
    /\ chainJobs = {[id |-> 1] @@
                      NewJob("mint", StartBalance, WalletTxId(1), NoKey)}
    /\ ledger = BagOfSeq(MintLedgerRows(StartBalance, 1))
    /\ tb = StartBalance
    /\ chainBal = StartBalance
    /\ tbLock = NoProc
    /\ pc = [p \in Procs |-> "idle"]
    /\ tx = [p \in Procs |-> BlankTx]
    /\ last = Response("ingest", NoKey, "ok", 1, 1)
    /\ mintCalls = [x \in PTX |-> IF x = WalletTxId(1) THEN 1 ELSE 0]
    /\ jobCap = MaxJobs + 1

\* Redeems only, each with no key or with a key no other request carries.
NextRedeem ==
    \/ \E p \in Procs, a \in ConcurrentAmounts :
          \E k \in {NoKey, OwnKey(p)} :
              /\ ~IdemHit(k)
              /\ RedeemBegin(p, a, k)
              /\ UNCHANGED hookVars
    \/ \E p \in Procs : RedeemLock(p) /\ UNCHANGED hookVars
    \/ \E p \in Procs : RedeemCreate(p) /\ UNCHANGED hookVars
    \/ \E p \in Procs : Commit(p) /\ UNCHANGED hookVars

SpecRedeem == InitRedeem /\ [][NextRedeem]_vars

\* ------------------------------------- DemoServices.redeem, statement by
\* ------------------------------------- statement

\* Faulty variant: the wallet is debited right after the balance check.
DebitFirst(pos) ==
    IF pos = "r_lock" THEN "s_debit"
    ELSE IF pos = "s_debit" THEN "s_burn"
    ELSE IF pos = "s_burn" THEN "s_job"
    ELSE IF pos = "s_job" THEN "s_balance"
    ELSE IF pos = "s_balance" THEN "s_ledger"
    ELSE "commit"

\* The statement that follows each statement of redeem: the balance check
\* under the lock, ChainAdapter.burn, ChainJob.objects.create, the save of
\* the lowered balance, bulk_create of the ledger pair, WalletAdapter.debit.
RedeemOrder(pos) ==
    IF pos = "r_lock" THEN "s_burn"
    ELSE IF pos = "s_burn" THEN "s_job"
    ELSE IF pos = "s_job" THEN "s_balance"
    ELSE IF pos = "s_balance" THEN "s_ledger"
    ELSE IF pos = "s_ledger" THEN "s_debit"
    ELSE "commit"

\* tb = TokenBalance.objects.select_for_update().get(user=user), and the
\* test of the balance.
RedeemCheck(p) ==
    /\ pc[p] = "r_lock"
    /\ LockFree(tbLock)
    /\ IF InsufficientBalance(tb, tx[p].amt)
       THEN /\ Rollback(p, "insufficient_balance")
       ELSE /\ tbLock' = p
            /\ tx' = [tx EXCEPT ![p].tbObj = tb]
            /\ pc' = [pc EXCEPT ![p] = RedeemOrder("r_lock")]
            /\ UNCHANGED <<db, last, mintCalls, jobCap>>

\* receipt = ChainAdapter.burn(user.id, amount_units)
RedeemBurn(p) ==
    /\ pc[p] = "s_burn"
    /\ tx' = [tx EXCEPT
                ![p].chain = {ChainAfterBurn(ChainSeen(p), tx[p].amt)},
                ![p].calls = tx[p].calls + 1]
    /\ pc' = [pc EXCEPT ![p] = RedeemOrder("s_burn")]
    /\ UNCHANGED <<db, tbLock, last, mintCalls, jobCap>>

\* job = ChainJob.objects.create(...), and its handler
RedeemJob(p) ==
    /\ pc[p] = "s_job"
    /\ ~KeyPendingElsewhere(p, tx[p].key)
    /\ IF KeyConflict(tx[p].key)
       THEN /\ Rollback(p, "TransactionManagementError")
       ELSE /\ tx' = [tx EXCEPT ![p].jobs = Append(tx[p].jobs,
                        NewJob("burn", tx[p].amt, NoRef, tx[p].key))]
            /\ pc' = [pc EXCEPT ![p] = RedeemOrder("s_job")]
            /\ UNCHANGED <<db, tbLock, last, mintCalls, jobCap>>

\* tb.balance_units -= amount_units; tb.save(...)
RedeemDecrement(p) ==
    /\ pc[p] = "s_balance"
    /\ tx' = [tx EXCEPT ![p].tb = {BalanceAfterBurn(tx[p].tbObj, tx[p].amt)}]
    /\ pc' = [pc EXCEPT ![p] = RedeemOrder("s_balance")]
    /\ UNCHANGED <<db, tbLock, last, mintCalls, jobCap>>

\* LedgerEntry.objects.bulk_create([...]) with ref_id = job.id
RedeemLedger(p) ==
    /\ pc[p] = "s_ledger"
    /\ tx' = [tx EXCEPT ![p].ledger = tx[p].ledger \o
                                        BurnLedgerRows(tx[p].amt,
                                                       Len(tx[p].jobs))]
    /\ pc' = [pc EXCEPT ![p] = RedeemOrder("s_ledger")]
    /\ UNCHANGED <<db, tbLock, last, mintCalls, jobCap>>

\* WalletAdapter.debit(wa.provider_acct, amount_pkr, memo or "redeem")
RedeemDebit(p) ==
    /\ pc[p] = "s_debit"
    /\ tx' = [tx EXCEPT
                ![p].wbal = {WalletSeen(p) - units_to_pkr(tx[p].amt).coef},
                ![p].wtxs = Append(tx[p].wtxs,
                    [direction |-> "debit",
                     amount_pkr |-> units_to_pkr(tx[p].amt)])]
    /\ pc' = [pc EXCEPT ![p] = RedeemOrder("s_debit")]
    /\ UNCHANGED <<db, tbLock, last, mintCalls, jobCap>>

\* Concurrent redeems on the funded balance, one statement at a time.
NextSteps ==
    \/ \E p \in Procs, a \in ConcurrentAmounts :
          \E k \in {NoKey, OwnKey(p)} :
              /\ ~IdemHit(k)
              /\ RedeemBegin(p, a, k)
              /\ UNCHANGED hookVars
    \/ \E p \in Procs : RedeemCheck(p) /\ UNCHANGED hookVars
    \/ \E p \in Procs : RedeemBurn(p) /\ UNCHANGED hookVars
    \/ \E p \in Procs : RedeemJob(p) /\ UNCHANGED hookVars
    \/ \E p \in Procs : RedeemDecrement(p) /\ UNCHANGED hookVars
    \/ \E p \in Procs : RedeemLedger(p) /\ UNCHANGED hookVars
    \/ \E p \in Procs : RedeemDebit(p) /\ UNCHANGED hookVars
    \/ \E p \in Procs : Commit(p) /\ UNCHANGED hookVars

SpecSteps == InitRedeem /\ [][NextSteps]_vars

\* --------------------------------- an exception inside an atomic block

\* The requests whose transaction has made its chain call.
AfterChainCall(p) == pc[p] # "idle" /\ tx[p].calls > 0

\* The answer to a request that an exception has ended: bank_webhook
\* catches every exception and answers 400, the other views let it through.
Raised(op) == IF op = "bank" THEN "error400" ELSE "error500"

\* A step of the request after its chain call raises: a query that fails,
\* the wallet debit of redeem, the save of the ExternalTransaction.  The
\* exception leaves every enclosing transaction.atomic.
Raise(p) ==
    /\ AfterChainCall(p)
    /\ Rollback(p, Raised(tx[p].op))

\* The requests of Next that carry no Idempotency-Key, and Raise.  With no
\* client key no wait cycle forms, so DeadlockAbort has no step here.
NextFail ==
    \/ \E p \in Procs, a \in RedeemAmounts :
          RedeemBegin(p, a, NoKey) /\ UNCHANGED hookVars
    \/ \E p \in Procs : RedeemLock(p) /\ UNCHANGED hookVars
    \/ \E p \in Procs : RedeemCreate(p) /\ UNCHANGED hookVars
    \/ \E p \in Procs, x \in PTX :
          MintBegin(p, x, NoKey) /\ UNCHANGED hookVars
    \/ \E p \in Procs : MintCreate(p) /\ UNCHANGED hookVars
    \/ \E p \in Procs : MintLock(p) /\ UNCHANGED hookVars
    \/ \E p \in Procs, x \in BankIds, d \in BankPayloads :
          BankBegin(p, x, d.direction, d.status, d.amount_pkr) /\ UNCHANGED hookVars
    \/ \E p \in Procs : BankCreate(p) /\ UNCHANGED hookVars
    \/ \E p \in Procs : BankLock(p) /\ UNCHANGED hookVars
    \/ \E a \in CreditAmounts : WalletCredit(a) /\ UNCHANGED hookVars
    \/ \E p \in Procs, s \in Sinces : IngestBegin(p, s) /\ UNCHANGED hookVars
    \/ \E p \in Procs : IngestStep(p) /\ UNCHANGED hookVars
    \/ \E p \in Procs : IngestBlocked(p) /\ UNCHANGED hookVars
    \/ \E p \in Procs : IngestLock(p) /\ UNCHANGED hookVars
    \/ \E p \in Procs : Commit(p) /\ UNCHANGED hookVars
    \/ \E p \in Procs : Raise(p) /\ UNCHANGED hookVars

SpecFail == Init /\ [][NextFail]_vars

\* ------------------------------------------ amounts of either sign

\* amount_pkr is Decimal(str(payload["amount_pkr"])) with no test of its
\* sign before the row is stored: a qualifying delivery, and a delivery of
\* a negative amount, which is stored as IGNORED with that amount.
SignedPayloads ==
    {[direction |-> "credit", status |-> "settled", amount_pkr |-> Dec(1, 2)],
     [direction |-> "credit", status |-> "settled", amount_pkr |-> Dec(-1, 2)]}

\* Bank deliveries of either sign, demo credits and ingests, mints on demand
\* and redeems, none with an Idempotency-Key.
NextSigned ==
    \/ \E p \in Procs, a \in RedeemAmounts :
          RedeemBegin(p, a, NoKey) /\ UNCHANGED hookVars
    \/ \E p \in Procs : RedeemLock(p) /\ UNCHANGED hookVars
    \/ \E p \in Procs : RedeemCreate(p) /\ UNCHANGED hookVars
    \/ \E p \in Procs, x \in PTX :
          MintBegin(p, x, NoKey) /\ UNCHANGED hookVars
    \/ \E p \in Procs : MintCreate(p) /\ UNCHANGED hookVars
    \/ \E p \in Procs : MintLock(p) /\ UNCHANGED hookVars
    \/ \E p \in Procs, x \in BankIds, d \in SignedPayloads :
          BankBegin(p, x, d.direction, d.status, d.amount_pkr) /\ UNCHANGED hookVars
    \/ \E p \in Procs : BankCreate(p) /\ UNCHANGED hookVars
    \/ \E p \in Procs : BankLock(p) /\ UNCHANGED hookVars
    \/ \E a \in CreditAmounts : WalletCredit(a) /\ UNCHANGED hookVars
    \/ \E p \in Procs, s \in Sinces : IngestBegin(p, s) /\ UNCHANGED hookVars
    \/ \E p \in Procs : IngestStep(p) /\ UNCHANGED hookVars
    \/ \E p \in Procs : IngestBlocked(p) /\ UNCHANGED hookVars
    \/ \E p \in Procs : IngestLock(p) /\ UNCHANGED hookVars
    \/ \E p \in Procs : Commit(p) /\ UNCHANGED hookVars

SpecSigned == Init /\ [][NextSigned]_vars

\* ------------------------------------- the rows of a user: seed_demo_user
\* ------------------------------------- and the first mints

\* What no step of this section changes.
restVars == <<db, tbLock, pc, tx, last, mintCalls, jobCap,
              events, payouts, debits, hpc, hreq, hlast, settings, conv>>

\* Another request for the same user is running.
Raced(p, u) ==
    \E q \in Procs \ {p} : work[q].pc # "idle" /\ work[q].user = u

\* Faulty variant: the write of the ChainStubBalance row never waits.
StubNeverBusy(p, u) == FALSE

\* The ChainStubBalance row of u is held by another request: it inserted
\* the row and has not committed (unique user_id: the insert waits), or it
\* saved the row and has not committed (the UPDATE waits for the row lock).
StubRowBusy(p, u) ==
    \E q \in Procs \ {p} :
        work[q].user = u /\ (work[q].newStub \/ work[q].stubLock)

\* Another request inserted the User row of this email and has not
\* committed: the unique index on email makes the insert wait.
UserPendingElsewhere(p, u) ==
    \E q \in Procs \ {p} : work[q].user = u /\ work[q].newUser

\* seed_demo_user is entered (from POST /demo/seed, wallet_credit or
\* ingest_since) and opens its transaction.
SeedBegin(p) ==
    /\ work[p].pc = "idle"
    /\ work' = [work EXCEPT ![p] =
          [BlankWork EXCEPT !.pc = "s_user", !.user = DemoUser,
                            !.raced = Raced(p, DemoUser)]]
    /\ UNCHANGED <<userRows, waRows, tbRows, stubRows>>
    /\ UNCHANGED restVars

\* User.objects.get_or_create(email=DEMO_USER_EMAIL): the committed row, or
\* an insert, which waits while another insert of the email is uncommitted
\* and then finds that row.
SeedUser(p) ==
    /\ work[p].pc = "s_user"
    /\ IF work[p].user \in userRows
       THEN work' = [work EXCEPT ![p].pc = "s_wallet"]
       ELSE /\ ~UserPendingElsewhere(p, work[p].user)
            /\ work' = [work EXCEPT ![p].pc = "s_wallet",
                                    ![p].newUser = TRUE]
    /\ UNCHANGED <<userRows, waRows, tbRows, stubRows>>
    /\ UNCHANGED restVars

\* WalletAccount.objects.get_or_create(user, provider, provider_acct): no
\* unique index, so a row is inserted whenever none is visible; more than
\* one visible row is MultipleObjectsReturned, which ends the request.
SeedWallet(p) ==
    /\ work[p].pc = "s_wallet"
    /\ LET n == IF work[p].newUser THEN 0 ELSE waRows[work[p].user] IN
       work' = [work EXCEPT ![p] =
                  IF n = 0 THEN [@ EXCEPT !.pc = "s_tb", !.newWa = TRUE]
                  ELSE IF n = 1 THEN [@ EXCEPT !.pc = "s_tb"]
                  ELSE BlankWork]
    /\ UNCHANGED <<userRows, waRows, tbRows, stubRows>>
    /\ UNCHANGED restVars

\* TokenBalance.objects.get_or_create(user=user): no unique index either.
SeedTb(p) ==
    /\ work[p].pc = "s_tb"
    /\ LET n == IF work[p].newUser THEN 0 ELSE tbRows[work[p].user] IN
       work' = [work EXCEPT ![p] =
                  IF n = 0 THEN [@ EXCEPT !.pc = "commit", !.newTb = TRUE]
                  ELSE IF n = 1 THEN [@ EXCEPT !.pc = "commit"]
                  ELSE BlankWork]
    /\ UNCHANGED <<userRows, waRows, tbRows, stubRows>>
    /\ UNCHANGED restVars

\* bank_webhook resolves the user (User.objects.get) and enters
\* perform_mint_for_external_tx in its transaction.  The deliveries carry
\* provider_tx_ids of their own, so their ExternalTransaction rows and
\* their keys bank:<id> never meet.
FirstMintBegin(p, u) ==
    /\ work[p].pc = "idle"
    /\ u \in userRows
    /\ work' = [work EXCEPT ![p] =
          [BlankWork EXCEPT !.pc = "f_chain", !.user = u,
                            !.raced = Raced(p, u)]]
    /\ UNCHANGED <<userRows, waRows, tbRows, stubRows>>
    /\ UNCHANGED restVars

\* ChainAdapter.mint: ChainStubBalance.objects.get_or_create(user_id), then
\* bal.save(): the request inserts the row or updates it, and holds it
\* until its transaction ends.
FirstMintChain(p) ==
    /\ work[p].pc = "f_chain"
    /\ ~StubRowBusy(p, work[p].user)
    /\ work' = [work EXCEPT ![p].pc = "f_tb",
                            ![p].newStub = work[p].user \notin stubRows,
                            ![p].stubLock = TRUE]
    /\ UNCHANGED <<userRows, waRows, tbRows, stubRows>>
    /\ UNCHANGED restVars

\* TokenBalance.objects.select_for_update().get_or_create(user=user): the
\* committed row is locked and returned, or a row is inserted when none is
\* visible; more than one row is MultipleObjectsReturned.
FirstMintTb(p) ==
    /\ work[p].pc = "f_tb"
    /\ LET n == tbRows[work[p].user] IN
       work' = [work EXCEPT ![p] =
                  IF n = 0 THEN [@ EXCEPT !.pc = "commit", !.newTb = TRUE]
                  ELSE IF n = 1 THEN [@ EXCEPT !.pc = "commit"]
                  ELSE BlankWork]
    /\ UNCHANGED <<userRows, waRows, tbRows, stubRows>>
    /\ UNCHANGED restVars

\* The transaction commits: the rows the request inserted become visible
\* and its locks are released.
RowsCommit(p) ==
    /\ work[p].pc = "commit"
    /\ LET u == work[p].user IN
       /\ userRows' = IF work[p].newUser THEN userRows \cup {u} ELSE userRows
       /\ waRows' = [waRows EXCEPT ![u] = IF work[p].newWa THEN @ + 1 ELSE @]
       /\ tbRows' = [tbRows EXCEPT ![u] = IF work[p].newTb THEN @ + 1 ELSE @]
       /\ stubRows' = IF work[p].newStub THEN stubRows \cup {u} ELSE stubRows
    /\ work' = [work EXCEPT ![p] = BlankWork]
    /\ UNCHANGED restVars

\* The database before the first seed_demo_user, with or without a user
\* that was created elsewhere and has no row of its own yet.
InitEmpty ==
    /\ InitHook /\ InitBank
    /\ conv = NoConv /\ settings = SignedSettings
    /\ userRows \in {{}, {OtherUser}}
    /\ waRows = [u \in Users |-> 0]
    /\ tbRows = [u \in Users |-> 0]
    /\ stubRows = {}
    /\ work = [p \in Procs |-> BlankWork]

NextRows ==
    \/ \E p \in Procs : SeedBegin(p)
    \/ \E p \in Procs : SeedUser(p)
    \/ \E p \in Procs : SeedWallet(p)
    \/ \E p \in Procs : SeedTb(p)
    \/ \E p \in Procs, u \in Users : FirstMintBegin(p, u)
    \/ \E p \in Procs : FirstMintChain(p)
    \/ \E p \in Procs : FirstMintTb(p)
    \/ \E p \in Procs : RowsCommit(p)

SpecRows == InitEmpty /\ [][NextRows]_vars

\* ------------------------------------------------ stacks_chainhook_webhook

\* Everything but the chainhook path's own state and the wallet.
bankVars == <<chainJobs, ledger, tb, chainBal, ets, tbLock, pc, tx, last,
              mintCalls, jobCap, settings, conv, rowVars>>

\* int(x): defined on the texts that are integers, ValueError on the others.
IsInt(x) == x \in DOMAIN IntTexts
int(x) == IntTexts[x]

\* The (txid, event_index) pair of a well-formed raw event.
PairOf(e) == <<e.txid, int(e.event_index)>>

Asked(b) == {PairOf(b[i]) : i \in {i \in DOMAIN b : b[i] \in WellFormedBurns}}

\* The simple shape: e["txid"], int(e["event_index"]), e["user_address"] and
\* int(e["amount_units"]) are read with no guard, so a missing key is a
\* KeyError and a text that is no integer a ValueError.
SimpleRaises(e) ==
    \/ e.txid = Absent
    \/ e.event_index = Absent
    \/ ~IsInt(e.event_index)
    \/ e.user_address = Absent
    \/ ~IsInt(e.amount_units)

SimpleBurn(e) ==
    [txid |-> e.txid, event_index |-> int(e.event_index),
     user_address |-> e.user_address, amount_units |-> int(e.amount_units)]

\* The chainhook shape: an event without amount or sender, or with an amount
\* that is no integer, is left out; a missing transaction_hash is None, a
\* missing event_index is 0, and int(event_index) is not guarded.
ChainhookKeeps(e) ==
    /\ e.amount_units # Absent
    /\ e.user_address # Absent
    /\ IsInt(e.amount_units)

ChainhookRaises(e) ==
    ChainhookKeeps(e) /\ e.event_index # Absent /\ ~IsInt(e.event_index)

ChainhookBurn(e) ==
    [txid |-> e.txid,
     event_index |-> IF e.event_index = Absent THEN 0 ELSE int(e.event_index),
     user_address |-> e.user_address, amount_units |-> int(e.amount_units)]

\* _parse_chainhook_burns(payload): whether it raised, and the list it made.
parse_chainhook_burns(f, b) ==
    IF f = "simple"
    THEN IF \E i \in DOMAIN b : SimpleRaises(b[i])
         THEN [raised |-> TRUE, burns |-> << >>]
         ELSE [raised |-> FALSE, burns |-> [i \in DOMAIN b |-> SimpleBurn(b[i])]]
    ELSE IF \E i \in DOMAIN b : ChainhookRaises(b[i])
         THEN [raised |-> TRUE, burns |-> << >>]
         ELSE LET kept == SelectSeq(b, ChainhookKeeps) IN
              [raised |-> FALSE,
               burns |-> [i \in DOMAIN kept |-> ChainhookBurn(kept[i])]]

\* _resolve_user_from_stacks_address: an address with "@" is looked up as an
\* email, and no user but the demo user exists; any other address is the
\* demo user.
UserExists(address) == address # "ghost@example.com"

\* Every pair counts as new.
EventNeverStored(pair) == FALSE

\* An OnchainEvent row with this pair is committed.
EventStored(pair) ==
    \E v \in events : <<v.txid, v.event_index>> = pair

\* Another request has inserted this pair and not committed yet: the unique
\* index makes the insert wait.
EventPendingElsewhere(p, pair) ==
    \E q \in Procs \ {p} :
        \E v \in hreq[q].ev : <<v.txid, v.event_index>> = pair

\* The OnchainEvent row of get_or_create's defaults.
NewOnchainEvent(e) ==
    [txid |-> e.txid, event_index |-> e.event_index, user |-> DemoUser,
     amount_units |-> e.amount_units, consumed |-> FALSE]

\* The PayoutJob row of get_or_create's defaults.
NewPayoutJob(v) ==
    [event |-> <<v.txid, v.event_index>>, user |-> v.user,
     amount_pkr |-> units_to_pkr(v.amount_units), status |-> "PENDING",
     attempts |-> 0, payout_ref |-> "", last_error |-> ""]

\* A job that succeeded is attempted again like any other.
SuccessNotTerminal(job) == FALSE

\* process_payout_for_onchain_event returns early on this job.
AlreadyPaid(job) == job.status = "SUCCESS"

\* Faulty variant: the attempt is not counted and the event is not stamped.
AttemptNotCounted(job, v, ok, ref) ==
    [job |-> [job EXCEPT !.payout_ref = IF ok THEN ref ELSE @,
                         !.status = IF ok THEN "SUCCESS"
                                    ELSE "FAILED_RETRYABLE",
                         !.last_error = IF ok THEN "" ELSE "error"],
     event |-> v,
     debited |-> ok]

\* Faulty variant: a failed attempt stamps the event as consumed.
AttemptConsumesOnFailure(job, v, ok, ref) ==
    IF job.status = "SUCCESS"
    THEN [job |-> job, event |-> v, debited |-> FALSE]
    ELSE [job |-> [job EXCEPT !.attempts = @ + 1,
                              !.payout_ref = IF ok THEN ref ELSE @,
                              !.status = IF ok THEN "SUCCESS"
                                         ELSE "FAILED_RETRYABLE",
                              !.last_error = IF ok THEN "" ELSE "error"],
          event |-> [v EXCEPT !.consumed = TRUE],
          debited |-> ok]

\* Faulty variant: a failed attempt leaves the status of the job as it was.
AttemptLeavesStatus(job, v, ok, ref) ==
    IF job.status = "SUCCESS"
    THEN [job |-> job, event |-> v, debited |-> FALSE]
    ELSE IF ok
    THEN [job |-> [job EXCEPT !.attempts = @ + 1, !.payout_ref = ref,
                              !.status = "SUCCESS", !.last_error = ""],
          event |-> [v EXCEPT !.consumed = TRUE],
          debited |-> TRUE]
    ELSE [job |-> [job EXCEPT !.attempts = @ + 1, !.last_error = "error"],
          event |-> v,
          debited |-> FALSE]

\* process_payout_for_onchain_event from the row lock on: the job and the
\* event it leaves, and whether the wallet was debited. ok: whether
\* WalletAdapter.debit returned; ref: the provider_tx_id it returned.
AttemptPayout(job, v, ok, ref) ==
    IF AlreadyPaid(job)
    THEN [job |-> job, event |-> v, debited |-> FALSE]
    ELSE IF ok
    THEN [job |-> [job EXCEPT !.attempts = @ + 1, !.payout_ref = ref,
                              !.status = "SUCCESS", !.last_error = ""],
          event |-> [v EXCEPT !.consumed = TRUE],
          debited |-> TRUE]
    ELSE [job |-> [job EXCEPT !.attempts = @ + 1,
                              !.status = "FAILED_RETRYABLE",
                              !.last_error = "error"],
          event |-> v,
          debited |-> FALSE]

\* Faulty variant: the payout is booked as a credit of the wallet.
WalletCreditedInstead(amount) ==
    /\ walletTxs' = Append(walletTxs,
          [provider_tx_id |-> WalletTxId(Len(walletTxs) + 1),
           direction |-> "credit", amount_pkr |-> amount])
    /\ walletBal' = walletBal + amount.coef

\* WalletAdapter.debit: the debit row and the lowered balance.
WalletDebit(amount) ==
    /\ walletTxs' = Append(walletTxs,
          [provider_tx_id |-> WalletTxId(Len(walletTxs) + 1),
           direction |-> "debit", amount_pkr |-> amount])
    /\ walletBal' = walletBal - amount.coef

\* The database after an attempt r on the job old of the event oldv.
Paid(r, oldv, old) ==
    /\ events' = (events \ {oldv}) \cup {r.event}
    /\ payouts' = (payouts \ {old}) \cup {r.job}
    /\ IF r.debited
       THEN /\ WalletDebit(units_to_pkr(r.event.amount_units))
            /\ debits' = [debits EXCEPT ![r.job.event] =
                                          IF @ < 2 THEN @ + 1 ELSE @]
       ELSE UNCHANGED <<walletTxs, walletBal, debits>>

\* POST /api/webhooks/stacks: parse the payload; an exception of
\* the parser escapes the view (500), an empty list answers events = 0.
HookBegin(p, f, b) ==
    /\ hpc[p] = "idle"
    /\ LET r == parse_chainhook_burns(f, b) IN
       IF r.raised
       THEN /\ hlast' = HookResponse(500, 0, Asked(b))
            /\ UNCHANGED <<hpc, hreq>>
       ELSE IF r.burns = << >>
       THEN /\ hlast' = HookResponse(200, 0, Asked(b))
            /\ UNCHANGED <<hpc, hreq>>
       ELSE /\ hpc' = [hpc EXCEPT ![p] = "loop"]
            /\ hreq' = [hreq EXCEPT ![p] =
                  [BlankReq EXCEPT
                     !.burns = r.burns,
                     !.asked = Asked(b),
                     !.seen = \A i \in DOMAIN r.burns :
                        EventStored(<<r.burns[i].txid, r.burns[i].event_index>>)]]
            /\ UNCHANGED hlast
    /\ UNCHANGED <<events, payouts, debits, walletBal, walletTxs>>
    /\ UNCHANGED bankVars

\* One turn of the loop up to the row lock: an unknown user, a txid of None
\* (IntegrityError) and a pair that is stored already go to the next event;
\* a new pair is inserted with its PENDING job.
HookStep(p) ==
    /\ hpc[p] = "loop"
    /\ hreq[p].burns # << >>
    /\ LET e == Head(hreq[p].burns)
           pair == <<e.txid, e.event_index>> IN
       IF \/ ~UserExists(e.user_address)
          \/ e.txid = Absent
          \/ EventStored(pair)
       THEN /\ hreq' = [hreq EXCEPT ![p].burns = Tail(@)]
            /\ UNCHANGED hpc
       ELSE /\ ~EventPendingElsewhere(p, pair)
            /\ hpc' = [hpc EXCEPT ![p] = "attempt"]
            /\ hreq' = [hreq EXCEPT
                  ![p].ev = {NewOnchainEvent(e)},
                  ![p].job = {NewPayoutJob(NewOnchainEvent(e))}]
    /\ UNCHANGED <<events, payouts, debits, walletBal, walletTxs, hlast>>
    /\ UNCHANGED bankVars

\* The rest of the turn: the payout attempt, then the commit of the event,
\* the job and the debit.
HookPayout(p, ok) ==
    /\ hpc[p] = "attempt"
    /\ \E v \in hreq[p].ev, job \in hreq[p].job :
          Paid(AttemptPayout(job, v, ok, WalletTxId(Len(walletTxs) + 1)),
               v, job)
    /\ hpc' = [hpc EXCEPT ![p] = "loop"]
    /\ hreq' = [hreq EXCEPT ![p].burns = Tail(@), ![p].processed = @ + 1,
                            ![p].ev = {}, ![p].job = {}]
    /\ UNCHANGED hlast
    /\ UNCHANGED bankVars

\* The end of the loop: {"ok": true, "events": processed}.
HookRespond(p) ==
    /\ hpc[p] = "loop"
    /\ hreq[p].burns = << >>
    /\ hlast' = HookResponse(200, hreq[p].processed, hreq[p].asked)
    /\ hpc' = [hpc EXCEPT ![p] = "idle"]
    /\ hreq' = [hreq EXCEPT ![p] = BlankReq]
    /\ UNCHANGED <<events, payouts, debits, walletBal, walletTxs>>
    /\ UNCHANGED bankVars

\* process_payout_for_onchain_event called on a stored event: the direct
\* re-invocation of the orchestrator.
Reinvoke(pair, ok) ==
    /\ \E v \in events, job \in payouts :
          /\ <<v.txid, v.event_index>> = pair
          /\ job.event = pair
          /\ AlreadyPaid(job) \/ job.attempts < MaxAttempts
          /\ Paid(AttemptPayout(job, v, ok, WalletTxId(Len(walletTxs) + 1)),
                  v, job)
    /\ UNCHANGED <<hpc, hreq, hlast>>
    /\ UNCHANGED bankVars

\* The first worker delivers any batch, the second one a racing batch.
BatchesOf(p) == IF p = "p1" THEN Batches ELSE RacingBatches
FormatsOf(p) == IF p = "p1" THEN Formats ELSE {"simple"}

NextHook ==
    \/ \E p \in Procs :
          \E f \in FormatsOf(p), b \in BatchesOf(p) : HookBegin(p, f, b)
    \/ \E p \in Procs : HookStep(p)
    \/ \E p \in Procs, ok \in BOOLEAN : HookPayout(p, ok)
    \/ \E p \in Procs : HookRespond(p)
    \/ \E pair \in Pairs, ok \in BOOLEAN : Reinvoke(pair, ok)

SpecHook == Init /\ [][NextHook]_vars

\* One worker that keeps delivering the well-formed events, one per batch in
\* the simple shape. A request that has started runs to its end; each
\* delivery that stays possible is made again and again; and a debit that
\* is attempted again and again succeeds at some point.
LiveBatches == {<<a>> : a \in WellFormedBurns}

NextHookLive ==
    \/ \E b \in LiveBatches : HookBegin("p1", "simple", b)
    \/ HookStep("p1")
    \/ \E ok \in BOOLEAN : HookPayout("p1", ok)
    \/ HookRespond("p1")

SpecHookLive ==
    /\ Init
    /\ [][NextHookLive]_vars
    /\ \A b \in LiveBatches : SF_vars(HookBegin("p1", "simple", b))
    /\ WF_vars(HookStep("p1"))
    /\ WF_vars(\E ok \in BOOLEAN : HookPayout("p1", ok))
    /\ SF_vars(HookPayout("p1", TRUE))
    /\ WF_vars(HookRespond("p1"))

\* ------------------------------------ bank_webhook: allowlist and signature

\* The addresses a delivery comes from and the allowlists of a deployment.
Addresses == {"10.1.2.3", "192.168.9.9"}
Allowlists == {<< >>, <<"10.0.0.0/8">>}

\* src in ipaddress.ip_network(net)
InNetwork(ip, net) == net = "10.0.0.0/8" /\ ip = "10.1.2.3"

\* The deployments: with or without a secret, with or without an allowlist.
Deployments == [secret : {BankSecret, NoSecret}, allowlist : Allowlists]

\* The raw body of a delivery, and the body of no delivery.
Body(x, d) ==
    [provider_tx_id |-> x, direction |-> d.direction, status |-> d.status,
     amount_pkr |-> d.amount_pkr]

Bodies == {Body(x, d) : x \in BankIds, d \in BankPayloads}

NoBody ==
    [provider_tx_id |-> "none", direction |-> "none", status |-> "none",
     amount_pkr |-> Dec(0, 2)]

\* hmac.new(key, msg, sha256).hexdigest(): a value that the key and the
\* message determine and that differs when either differs.
hexdigest(key, msg) == [key |-> key, msg |-> msg]

\* The X-Signature headers: the digest of any body under either secret, and
\* the empty text of a request without the header.
NoSignature == hexdigest("", NoBody)
Signatures ==
    {hexdigest(k, m) : k \in {BankSecret, OtherSecret}, m \in Bodies}
        \cup {NoSignature}

\* Any signature passes.
SignatureNotChecked(raw, sig, secret) == TRUE

\* _hmac_valid(raw_body, provided_sig, secret)
hmac_valid(raw, sig, secret) == hexdigest(secret, raw) = sig

\* _ip_allowed(request)
ip_allowed(ip) ==
    \/ settings.allowlist = << >>
    \/ \E i \in DOMAIN settings.allowlist : InNetwork(ip, settings.allowlist[i])

\* POST /api/webhooks/bank from address ip with X-Signature sig: the
\* allowlist, then the secret and the signature, then the delivery itself.
BankDeliver(p, ip, sig, x, d) ==
    IF ~ip_allowed(ip)
    THEN Free(p) /\ Reply(p, "bank", NoKey, "ip_not_allowed", 0)
    ELSE IF \/ settings.secret = NoSecret
            \/ ~hmac_valid(Body(x, d), sig, settings.secret)
    THEN Free(p) /\ Reply(p, "bank", NoKey, "bad_signature", 0)
    ELSE BankBegin(p, x, d.direction, d.status, d.amount_pkr)

InitGate == InitData /\ settings \in Deployments

\* Bank deliveries only: no request waits for a lock that another one holds
\* while waiting itself, so there is no deadlock to break.

NextGate ==
    \/ \E p \in Procs, ip \in Addresses, sig \in Signatures :
          \E x \in BankIds, d \in BankPayloads :
              BankDeliver(p, ip, sig, x, d) /\ UNCHANGED hookVars
    \/ \E p \in Procs : BankCreate(p) /\ UNCHANGED hookVars
    \/ \E p \in Procs : BankLock(p) /\ UNCHANGED hookVars
    \/ \E p \in Procs : Commit(p) /\ UNCHANGED hookVars

SpecGate == InitGate /\ [][NextGate]_vars

\* ------------------------------------- pkr_to_units and units_to_pkr at length

\* pkr_to_units and units_to_pkr above are the two conversions on amounts
\* short enough for machine integers. Here they are on numbers of any
\* length, written as sequences of decimal digits, with the precision of the
\* decimal module's context, which the multiplication and the division of
\* the code work in.

\* decimal.getcontext().prec, the default the code runs with.
PREC == 28

Max(a, b) == IF a >= b THEN a ELSE b

Zeros(n) == [i \in 1..n |-> 0]
Repeat(m, n) == [i \in 1..n |-> m]
Front(s) == SubSeq(s, 1, Len(s) - 1)
PadTo(s, n) == Zeros(n - Len(s)) \o s

\* The digits without leading zeros (one digit at least).
RECURSIVE Strip(_)
Strip(s) == IF Len(s) > 1 /\ Head(s) = 0 THEN Strip(Tail(s)) ELSE s

\* The digits of the number plus one.
RECURSIVE Inc(_)
Inc(s) ==
    IF s = << >> THEN <<1>>
    ELSE IF s[Len(s)] < 9 THEN Append(Front(s), s[Len(s)] + 1)
    ELSE Append(Inc(Front(s)), 0)

\* The digits of the sum of two numbers of equal length and a carry.
RECURSIVE AddCarry(_, _, _)
AddCarry(a, b, c) ==
    IF a = << >> THEN (IF c = 0 THEN << >> ELSE <<c>>)
    ELSE LET t == a[Len(a)] + b[Len(b)] + c IN
         Append(AddCarry(Front(a), Front(b), t \div 10), t % 10)

AddDigits(a, b) ==
    LET n == Max(Len(a), Len(b)) IN AddCarry(PadTo(a, n), PadTo(b, n), 0)

\* a < b, as numbers.
DigitsLess(a, b) ==
    LET n == Max(Len(a), Len(b))
        x == PadTo(a, n)
        y == PadTo(b, n) IN
    \E i \in 1..n : x[i] < y[i] /\ \A j \in 1..(i - 1) : x[j] = y[j]

\* The machine integer of a short digit sequence.
RECURSIVE IntOf(_)
IntOf(s) == IF s = << >> THEN 0 ELSE 10 * IntOf(Front(s)) + s[Len(s)]

\* A Decimal: digits * 10^(-exp); or the InvalidOperation the operation
\* raised instead of returning one.
Long(digits, exp) == [raised |-> FALSE, digits |-> digits, exp |-> exp]
InvalidOperation == [raised |-> TRUE, digits |-> <<0>>, exp |-> 0]

\* ROUND_HALF_EVEN, the rounding of the context: up when the dropped digits
\* are more than half a unit, or just half and the last kept digit is odd.
RoundsUp(kept, dropped) ==
    \/ Head(dropped) > 5
    \/ /\ Head(dropped) = 5
       /\ \/ \E i \in 2..Len(dropped) : dropped[i] # 0
          \/ kept[Len(kept)] % 2 = 1

\* The result of an arithmetic operation in the context: the exact result
\* if it has no more than PREC digits, else rounded to PREC digits.
Context(d) ==
    LET s == Strip(d.digits)
        n == Len(s) IN
    IF n <= PREC THEN Long(s, d.exp)
    ELSE LET kept == SubSeq(s, 1, PREC)
             dropped == SubSeq(s, PREC + 1, n)
             r == IF RoundsUp(kept, dropped) THEN Inc(kept) ELSE kept IN
         IF Len(r) > PREC
         THEN Long(Front(r), d.exp - (n - PREC) - 1)
         ELSE Long(r, d.exp - (n - PREC))

\* A quantize that rounds up: one more when a digit that is cut off is not 0.
QuantizeRoundUp(d, places) ==
    LET n == Len(d.digits)
        cut == d.exp - places
        s == IF cut <= 0 THEN d.digits \o Zeros(-cut)
             ELSE IF cut >= n THEN <<0>>
             ELSE SubSeq(d.digits, 1, n - cut)
        lost == cut > 0 /\ \E i \in 1..n : i > n - cut /\ d.digits[i] # 0 IN
    Long(Strip(IF lost THEN Inc(s) ELSE s), places)

\* d.quantize(Decimal with `places` fractional digits, rounding=ROUND_DOWN):
\* the digits beyond are cut off, missing ones are zeros, and a result of
\* more than PREC digits is an InvalidOperation.
Quantize(d, places) ==
    LET n == Len(d.digits)
        s == IF d.exp <= places THEN d.digits \o Zeros(places - d.exp)
             ELSE IF d.exp - places >= n THEN <<0>>
             ELSE SubSeq(d.digits, 1, n - (d.exp - places))
        t == Strip(s) IN
    IF Len(t) > PREC THEN InvalidOperation ELSE Long(t, places)

\* int((amount_pkr * Decimal(TEN_POW)).quantize(Decimal("1"), ROUND_DOWN))
LongPkrToUnits(a) ==
    Quantize(Context(Long(a.digits \o Zeros(TOKEN_DECIMALS), a.exp)), 0)

\* (Decimal(units) / Decimal(TEN_POW)).quantize(Decimal("0.01"), ROUND_DOWN)
LongUnitsToPkr(u) ==
    Quantize(Context(Long(u.digits, u.exp + TOKEN_DECIMALS)), 2)

\* The numbers converted: short ones, and ones of 2 to 33 digits made of a
\* first digit, a repeated digit and a last digit.
MiddleLens == {0, 4, 5, 25, 26, 27, 31}

ShortDigits == {<<0>>, <<1>>, <<1, 2, 3, 4, 5>>, <<9, 9, 9, 9>>}

LongDigits ==
    {<<h>> \o Repeat(m, n) \o <<t>> :
        h \in {1, 9}, m \in {0, 9}, t \in {0, 5, 9}, n \in MiddleLens}
      \cup ShortDigits

\* The numbers of fractional digits of a fiat amount with these digits.
FiatExps(s) == {0, 2, TOKEN_DECIMALS, TOKEN_DECIMALS + 1, Len(s) - 1,
                Len(s) + TOKEN_DECIMALS}

Conversions ==
    {[of |-> "pkr_to_units", arg |-> Long(s, e), steps |-> << >>] :
        s \in LongDigits, e \in UNION {FiatExps(t) : t \in LongDigits}}
      \cup {[of |-> "units_to_pkr", arg |-> Long(s, 0), steps |-> << >>] :
              s \in LongDigits}

\* What the next conversion is applied to: the argument, then the result
\* of the conversion before, unless that one raised.
Pending(first) ==
    IF conv.of = first /\ conv.steps = << >> THEN {conv.arg}
    ELSE IF /\ conv.of \notin {first, "none"}
            /\ Len(conv.steps) = 1
            /\ ~conv.steps[1].raised
    THEN {conv.steps[1]}
    ELSE {}

ApplyPkrToUnits ==
    /\ \E a \in Pending("pkr_to_units") :
          conv' = [conv EXCEPT !.steps = Append(@, LongPkrToUnits(a))]
    /\ UNCHANGED <<db, tbLock, pc, tx, last, mintCalls, jobCap,
                   events, payouts, debits, hpc, hreq, hlast, settings,
                   rowVars>>

ApplyUnitsToPkr ==
    /\ \E u \in Pending("units_to_pkr") :
          conv' = [conv EXCEPT !.steps = Append(@, LongUnitsToPkr(u))]
    /\ UNCHANGED <<db, tbLock, pc, tx, last, mintCalls, jobCap,
                   events, payouts, debits, hpc, hreq, hlast, settings,
                   rowVars>>

InitUnits == InitRows /\ settings = SignedSettings /\ conv \in Conversions

NextUnits == ApplyPkrToUnits \/ ApplyUnitsToPkr

SpecUnits == InitUnits /\ [][NextUnits]_vars

\* ------------------------------------------------------------- properties

\* Sum of amount_units over the rows S of the bag B, copies counted.
RECURSIVE SumRows(_, _)
SumRows(B, S) ==
    IF S = {} THEN 0
    ELSE LET r == CHOOSE r \in S : TRUE IN
         CopiesIn(r, B) * r.amount_units + SumRows(B, S \ {r})

LedgerRows == BagToSet(ledger)

\* LedgerEntry.objects.filter(user=..., account=..., side=...)
UserRows(user, account, side) ==
    {r \in LedgerRows : r.user = user /\ r.account = account /\ r.side = side}

SideRows(side) == {r \in LedgerRows : r.side = side}

RefRows(ref) == {r \in LedgerRows : r.ref_id = ref}

RECURSIVE SumJobs(_)
SumJobs(S) ==
    IF S = {} THEN 0
    ELSE LET j == CHOOSE j \in S : TRUE IN
         j.amount_units + SumJobs(S \ {j})

\* ChainJob.objects.filter(user=..., job_type=...)
JobsOf(user, type) ==
    {j \in chainJobs : j.user = user /\ j.job_type = type}

\* C1: in every reachable state the user's TokenBalance equals the sum of
\* the user's user_token debit rows minus the sum of the user's user_token
\* credit rows of the ledger.
C1_BalanceMatchesLedger ==
    tb = SumRows(ledger, UserRows(DemoUser, USER_TOKEN, "debit"))
         - SumRows(ledger, UserRows(DemoUser, USER_TOKEN, "credit"))

\* A mint and a burn are on the ledger and a request has just failed.
C1_Witness ==
    /\ UserRows(DemoUser, USER_TOKEN, "debit") # {}
    /\ UserRows(DemoUser, USER_TOKEN, "credit") # {}
    /\ last.out \notin {"ok", "none"}
    /\ tb > 0

\* C2: in every reachable state the user's TokenBalance equals the sum of
\* the amounts of the user's mint ChainJobs minus the sum of the amounts of
\* the user's burn ChainJobs.
C2_BalanceMatchesJobs ==
    tb = SumJobs(JobsOf(DemoUser, "mint")) - SumJobs(JobsOf(DemoUser, "burn"))

\* A mint job and a burn job of a positive amount are both committed.
C2_Witness ==
    \E m \in JobsOf(DemoUser, "mint"), b \in JobsOf(DemoUser, "burn") :
        b.amount_units > 0 /\ tb = m.amount_units - b.amount_units

\* C3: for every provider_tx_id the chain mint is invoked at most once and
\* at most one mint ChainJob references its ExternalTransaction.
C3_MintAtMostOnce ==
    \A x \in PTX :
        /\ mintCalls[x] <= 1
        /\ Cardinality({j \in chainJobs : j.job_type = "mint"
                                           /\ j.ref_external_tx = x}) <= 1

\* Some committed ChainJob carries the key k.
KeyUsed(k) == \E j \in chainJobs : j.idempotency_key = k

\* In this step p is handed a redeem or a mint-on-demand that carries key k:
\* the request either starts its transaction or is answered at once.
Invoked(p, k) ==
    /\ pc[p] = "idle"
    /\ \/ pc'[p] \in {"r_lock", "m_create"} /\ tx'[p].key = k
       \/ /\ pc' = pc /\ tx' = tx
          /\ last'.op \in {"redeem", "mint"} /\ last'.key = k

\* C4: a redeem or a mint-on-demand invoked with a key that a completed
\* invocation already used returns that invocation's ChainJob, makes no
\* chain call, creates no ChainJob, writes no ledger row, debits no wallet
\* and leaves TokenBalance unchanged.
C4_ReplayReturnsSameJob ==
    [][\A p \in Procs, k \in ClientKeys :
          (KeyUsed(k) /\ Invoked(p, k)) =>
              /\ last' = Response(last'.op, k, "ok", JobByKey(k).id, 0)
              /\ UNCHANGED <<db, tbLock, pc, tx, mintCalls>>]_vars

\* A redeem has just been answered with the burn job its key already had.
C4_Witness ==
    /\ last.op = "redeem" /\ last.out = "ok" /\ last.calls = 0
    /\ KeyUsed(last.key)
    /\ JobByKey(last.key).job_type = "burn"
    /\ last.job = JobByKey(last.key).id

\* The request kind that creates jobs of the given type.
SameKind(op, type) ==
    \/ op = "redeem" /\ type = "burn"
    \/ op = "mint" /\ type = "mint"

\* The request answered last carried the key of a committed job of its kind.
LastSharesKey ==
    /\ last.op \in {"redeem", "mint"}
    /\ KeyUsed(last.key)
    /\ SameKind(last.op, JobByKey(last.key).job_type)

\* C5: of two concurrent redeems (or mints-on-demand) with the same key,
\* the one that does not create the ChainJob makes no chain call.
C5_LoserMakesNoChainCall ==
    (LastSharesKey /\ last.job # JobByKey(last.key).id) => last.calls = 0

\* C6: of two concurrent redeems (or mints-on-demand) with the same key,
\* exactly one ChainJob with the key exists afterwards, with one ledger
\* pair, and both invocations return that job without error.
C6_BothReturnTheJob ==
    /\ \A k \in ClientKeys :
          KeyUsed(k) =>
              /\ Cardinality({j \in chainJobs : j.idempotency_key = k}) = 1
              /\ Cardinality(RefRows(JobByKey(k).id)) = 2
    /\ LastSharesKey =>
          last.out = "ok" /\ last.job = JobByKey(last.key).id

\* C7: in every reachable state every ChainJob is referenced through ref_id
\* by exactly two ledger rows: one on issuer_token with no user, one on
\* user_token with the job's user, on opposite sides, both of the job's
\* amount.
C7_JobHasLedgerPair ==
    \A j \in chainJobs :
        /\ BagCardinality([r \in RefRows(j.id) |-> CopiesIn(r, ledger)]) = 2
        /\ \E a, b \in RefRows(j.id) :
              /\ a.account = ISSUER_TOKEN /\ a.user = NoUser
              /\ b.account = USER_TOKEN /\ b.user = j.user
              /\ a.side # b.side
              /\ a.amount_units = j.amount_units
              /\ b.amount_units = j.amount_units

\* A mint job and a burn job are committed, each with its rows.
C7_Witness ==
    /\ JobsOf(DemoUser, "mint") # {}
    /\ JobsOf(DemoUser, "burn") # {}
    /\ BagCardinality(ledger) = 4

\* C8: in every reachable state the debit rows and the credit rows of the
\* ledger sum to the same amount, over the whole ledger and over the rows
\* of any single ref_id.
C8_LedgerBalanced ==
    /\ SumRows(ledger, SideRows("debit")) = SumRows(ledger, SideRows("credit"))
    /\ \A ref \in {r.ref_id : r \in LedgerRows} :
          SumRows(ledger, RefRows(ref) \cap SideRows("debit"))
            = SumRows(ledger, RefRows(ref) \cap SideRows("credit"))

\* C9 as amended: a redeem that reaches the balance check with an amount
\* greater than the TokenBalance fails with insufficient_balance, makes no
\* chain call and leaves every table unchanged.
C9_RedeemAboveBalanceFails ==
    [][\A p \in Procs :
          (pc[p] = "r_lock" /\ pc'[p] # "r_lock" /\ tx[p].amt > tb) =>
              /\ last' = Response("redeem", tx[p].key,
                                  "insufficient_balance", 0, 0)
              /\ UNCHANGED <<db, mintCalls>>]_vars

\* A redeem above a positive balance has just failed.
C9_Witness ==
    /\ last.op = "redeem" /\ last.out = "insufficient_balance"
    /\ last.calls = 0
    /\ tb > 0

\* C9 as stated: every redeem invoked with an amount greater than the
\* TokenBalance fails with insufficient_balance, whether it is answered at
\* once or after the balance check.
C9_EveryRedeemAboveBalanceFails ==
    [][\A p \in Procs, a \in RedeemAmounts :
          (/\ a > tb
           /\ \/ pc[p] = "r_lock" /\ pc'[p] # "r_lock" /\ tx[p].amt = a
              \/ \E k \in ClientKeys \cup {NoKey} :
                    RedeemBegin(p, a, k) /\ pc' = pc) =>
              last'.out = "insufficient_balance"]_vars

\* C10: for concurrent redeems with distinct or absent keys on a starting
\* balance B, the amounts of the redeems that succeeded sum to at most B,
\* TokenBalance is B minus that sum, and a redeem that did not succeed
\* failed with insufficient_balance.
C10_NoLostUpdate ==
    /\ SumJobs(JobsOf(DemoUser, "burn")) <= StartBalance
    /\ tb = StartBalance - SumJobs(JobsOf(DemoUser, "burn"))
    /\ last.op = "redeem" => last.out \in {"ok", "insufficient_balance"}

\* The whole balance has been redeemed and a further redeem has failed.
C10_Witness ==
    /\ last.op = "redeem" /\ last.out = "insufficient_balance"
    /\ SumJobs(JobsOf(DemoUser, "burn")) = StartBalance
    /\ tb = 0

\* C11 as amended: a bank delivery for a provider_tx_id whose
\* ExternalTransaction is MINTED changes no table, makes no chain call and
\* starts no transaction; when the delivery qualifies (credit, settled,
\* positive amount) its response is the idempotent one.
C11_MintedDeliveryChangesNothing ==
    [][\A p \in Procs, x \in BankIds, d \in BankPayloads :
          (/\ ets[x].status = "MINTED"
           /\ BankBegin(p, x, d.direction, d.status, d.amount_pkr)) =>
              /\ UNCHANGED <<db, tbLock, pc, tx, mintCalls>>
              /\ ~NonQualifying(d.direction, d.status, d.amount_pkr) =>
                    last' = Response("bank", NoKey, "idempotent", 0, 0)]_vars

\* A delivery has just been answered as idempotent for a MINTED row.
C11_Witness ==
    /\ last = Response("bank", NoKey, "idempotent", 0, 0)
    /\ ets["B1"].status = "MINTED"
    /\ JobsOf(DemoUser, "mint") # {}

\* C11 as stated: every bank delivery for a provider_tx_id whose
\* ExternalTransaction is MINTED is answered with the idempotent response.
C11_MintedDeliveryIsIdempotent ==
    [][\A p \in Procs, x \in BankIds, d \in BankPayloads :
          (/\ ets[x].status = "MINTED"
           /\ BankBegin(p, x, d.direction, d.status, d.amount_pkr)) =>
              last'.out = "idempotent"]_vars

\* C12: an ExternalTransaction stored as IGNORED keeps that status and is
\* never minted, whatever bank deliveries follow for its provider_tx_id.
C12_IgnoredStaysIgnored ==
    [][\A x \in BankIds :
          ets[x].status = "IGNORED" =>
              /\ ets'[x].status = "IGNORED"
              /\ last'.op = "bank" =>
                    {j \in chainJobs' : j.ref_external_tx = x}
                       = {j \in chainJobs : j.ref_external_tx = x}]_vars

\* C13: in every reachable state every ExternalTransaction referenced by
\* a mint ChainJob has status MINTED.
C13_MintedJobsHaveMintedTx ==
    \A j \in JobsOf(DemoUser, "mint") :
        ets[j.ref_external_tx].status = "MINTED"

\* The PayoutJob rows, committed or written and not yet committed, and the
\* status of the job of a pair ("none" when there is no such job).
JobRows == payouts \cup UNION {hreq[p].job : p \in Procs}

JobOf(pair) == {j \in JobRows : j.event = pair}

StatusOf(pair) ==
    IF JobOf(pair) = {} THEN "none"
    ELSE (CHOOSE j \in JobOf(pair) : TRUE).status

EventsOf(pair) == {v \in events : <<v.txid, v.event_index>> = pair}

\* A step of the chainhook request p.
HookStepOf(p) == hreq'[p] # hreq[p] \/ hpc'[p] # hpc[p]

\* C14: for a (txid, event_index) pair there is at most one OnchainEvent
\* row, at most one PayoutJob row and at most one wallet debit, whatever
\* batches are delivered, replayed or raced; and a delivery whose events are
\* all stored already changes no PayoutJob and answers events = 0.
C14_OncePerPair ==
    /\ [](\A pair \in Pairs :
             /\ Cardinality(EventsOf(pair)) <= 1
             /\ Cardinality({j \in payouts : j.event = pair}) <= 1
             /\ debits[pair] <= 1)
    /\ [][\A p \in Procs :
             (hreq[p].seen /\ HookStepOf(p)) =>
                 /\ payouts' = payouts
                 /\ events' = events
                 /\ hpc'[p] = "idle" => hlast'.events = 0]_vars

\* A replay of stored events has answered events = 0, and the wallet was
\* debited once for each of them.
C14_Witness ==
    /\ hlast = HookResponse(200, 0, Pairs)
    /\ \A pair \in Pairs : EventsOf(pair) # {} /\ debits[pair] = 1

\* The status changes of a PayoutJob the claim allows.
AllowedMoves ==
    {<<"PENDING", "SUCCESS">>, <<"PENDING", "FAILED_RETRYABLE">>,
     <<"FAILED_RETRYABLE", "SUCCESS">>,
     <<"FAILED_RETRYABLE", "FAILED_RETRYABLE">>}

\* C15: a PayoutJob starts PENDING and changes status only from PENDING or
\* FAILED_RETRYABLE to SUCCESS or FAILED_RETRYABLE; once it is SUCCESS no
\* step changes any of its fields or debits the wallet for it again; and it
\* is never FAILED_FINAL.
C15_PayoutStateMachine ==
    [][\A pair \in Pairs :
          /\ StatusOf(pair)' # "FAILED_FINAL"
          /\ StatusOf(pair) = "none" => StatusOf(pair)' \in {"none", "PENDING"}
          /\ (StatusOf(pair) # "none" /\ StatusOf(pair)' # StatusOf(pair)) =>
                <<StatusOf(pair), StatusOf(pair)'>> \in AllowedMoves
          /\ StatusOf(pair) = "SUCCESS" =>
                /\ JobOf(pair)' = JobOf(pair)
                /\ debits'[pair] = debits[pair]]_vars

\* A job failed, was attempted again and succeeded, while another one
\* succeeded at once.
C15_Witness ==
    /\ \E j \in payouts : j.status = "SUCCESS" /\ j.attempts = 2
    /\ \E j \in payouts : j.status = "SUCCESS" /\ j.attempts = 1

\* C16: a PayoutJob that is FAILED_RETRYABLE reaches SUCCESS, and its event
\* gets its consumed time, when the event keeps being delivered again and
\* a debit attempted again and again succeeds at some point.
C16_RedeliveryRetries ==
    \A pair \in Pairs :
        (StatusOf(pair) = "FAILED_RETRYABLE") ~>
            (/\ StatusOf(pair) = "SUCCESS"
             /\ \E v \in EventsOf(pair) : v.consumed)

\* C17: once a delivery has been answered, each well-formed event it
\* carried is stored with its PayoutJob, whatever else the batch held.
C17_MalformedEventSkipped ==
    hlast.status # 0 =>
        \A pair \in hlast.asked :
            EventsOf(pair) # {} /\ {j \in payouts : j.event = pair} # {}

\* What the claim calls a delivery to reject: a signature that is not the
\* digest of the body under the configured secret, no secret configured, or
\* an address outside every network of a non-empty allowlist.
Unauthorised(ip, sig, x, d) ==
    \/ sig # hexdigest(settings.secret, Body(x, d))
    \/ settings.secret = NoSecret
    \/ /\ settings.allowlist # << >>
       /\ \A i \in DOMAIN settings.allowlist :
             ~InNetwork(ip, settings.allowlist[i])

\* C18: a bank delivery with a wrong signature, or while no secret is
\* configured, or from an address outside a non-empty allowlist, is
\* rejected and changes no row, no balance and no running request.
C18_UnauthorisedChangesNothing ==
    [][\A p \in Procs, ip \in Addresses, sig \in Signatures :
          \A x \in BankIds, d \in BankPayloads :
              (Unauthorised(ip, sig, x, d) /\ BankDeliver(p, ip, sig, x, d)) =>
                  /\ UNCHANGED <<db, tbLock, pc, tx, mintCalls, hookVars>>
                  /\ last'.out \in {"ip_not_allowed", "bad_signature"}]_vars

\* A delivery was rejected for its signature after another one was minted,
\* on a deployment with an allowlist.
C18_Witness ==
    /\ last.out = "bad_signature"
    /\ ets["B1"].status = "MINTED"
    /\ settings.allowlist # << >>

\* The digits of the largest integer not above a * 10^TOKEN_DECIMALS,
\* computed on the digits of a with nothing rounded.
FloorScaled(a) ==
    LET n == Len(a.digits)
        cut == a.exp - TOKEN_DECIMALS IN
    Strip(IF cut <= 0 THEN a.digits \o Zeros(-cut)
          ELSE IF cut >= n THEN <<0>>
          ELSE SubSeq(a.digits, 1, n - cut))

\* x <= y for two Decimals, compared digit by digit at the same scale.
DecLessEq(x, y) ==
    LET e == Max(x.exp, y.exp) IN
    ~DigitsLess(y.digits \o Zeros(e - y.exp), x.digits \o Zeros(e - x.exp))

\* 10^(TOKEN_DECIMALS - 2): the units of one hundredth of the fiat currency.
UnitsPerCent == <<1>> \o Zeros(TOKEN_DECIMALS - 2)

\* C19: for a non-negative fiat amount A with any number of fractional
\* digits, pkr_to_units(A) is the largest integer not above
\* A * 10^TOKEN_DECIMALS, and units_to_pkr of it is not above A.
C19_UnitsNeverExceedFiat ==
    (conv.of = "pkr_to_units" /\ conv.steps # << >>) =>
        /\ ~conv.steps[1].raised
        /\ conv.steps[1].digits = FloorScaled(conv.arg)
        /\ Len(conv.steps) = 2 =>
              /\ ~conv.steps[2].raised
              /\ DecLessEq(conv.steps[2], conv.arg)

\* What the claim says of units_to_pkr(u) and of the units it converts
\* back to: a fiat amount of two decimals, not above u / 10^TOKEN_DECIMALS;
\* units not above u and less than 10^(TOKEN_DECIMALS - 2) below it. On a
\* number short enough for machine integers, pkr_to_units and units_to_pkr
\* of the ledger model give the same values.
RoundTripLosesLessThanACent ==
    /\ Len(conv.steps) >= 1 =>
          /\ ~conv.steps[1].raised
          /\ conv.steps[1].exp = 2
          /\ DecLessEq(conv.steps[1], Long(conv.arg.digits, TOKEN_DECIMALS))
          /\ Len(conv.arg.digits) <= TOKEN_DECIMALS + 1 =>
                units_to_pkr(IntOf(conv.arg.digits))
                   = Dec(IntOf(conv.steps[1].digits), 2)
    /\ Len(conv.steps) = 2 =>
          /\ ~conv.steps[2].raised
          /\ ~DigitsLess(conv.arg.digits, conv.steps[2].digits)
          /\ DigitsLess(conv.arg.digits,
                        AddDigits(conv.steps[2].digits, UnitsPerCent))
          /\ Len(conv.arg.digits) <= TOKEN_DECIMALS + 1 =>
                pkr_to_units(units_to_pkr(IntOf(conv.arg.digits)))
                   = IntOf(conv.steps[2].digits)

NewJobs == chainJobs' \ chainJobs

NewJobsOf(type) == {j \in NewJobs : j.job_type = type}

\* The request of p ends in this step, and not with success.
EndsInError(p) ==
    /\ pc[p] # "idle"
    /\ pc'[p] = "idle"
    /\ last'.out # "ok"

\* C21: a redeem, a mint-on-demand, an ingest or a bank mint that fails
\* after its chain call persists nothing, and every step that persists
\* anything persists whole invocations: with each new ChainJob its two
\* ledger rows and its change of TokenBalance, with each new burn job its
\* wallet debit, with the ChainJob of a bank mint the MINTED status of its
\* ExternalTransaction, and none of these without the job.
C21_AllOrNothing ==
    [][/\ \A p \in Procs :
             (AfterChainCall(p) /\ EndsInError(p)) => UNCHANGED db
       /\ BagCardinality(ledger')
             = BagCardinality(ledger) + 2 * Cardinality(NewJobs)
       /\ \A j \in NewJobs :
             \E a, b \in BagToSet(ledger') \ BagToSet(ledger) :
                /\ a.ref_id = j.id /\ a.account = ISSUER_TOKEN
                /\ b.ref_id = j.id /\ b.account = USER_TOKEN
       /\ tb' = tb + SumJobs(NewJobsOf("mint")) - SumJobs(NewJobsOf("burn"))
       /\ last'.op # "credit" =>
             Len(walletTxs') = Len(walletTxs) + Cardinality(NewJobsOf("burn"))
       /\ \A x \in PTX :
             (ets'[x].status = "MINTED" /\ ets[x].status # "MINTED") =>
                 \E j \in NewJobsOf("mint") : j.ref_external_tx = x
       /\ \A p \in Procs :
             (tx[p].op = "bank" /\ pc[p] # "idle" /\ pc'[p] = "idle"
                 /\ NewJobs # {}) =>
                 ets'[tx[p].ptx].status = "MINTED"]_vars

\* A redeem has failed after its burn call, with a job of an earlier
\* request committed and the balance what that job left.
C21_Witness ==
    /\ last.op = "redeem" /\ last.out = "error500" /\ last.calls > 0
    /\ chainJobs # {}
    /\ tb # 0

\* The bank delivery of p, the first one for its provider_tx_id (the row is
\* its own insert, not committed yet), ends in this step.
FirstDeliveryEnds(p) ==
    /\ tx[p].op = "bank"
    /\ pc[p] # "idle"
    /\ pc'[p] = "idle"
    /\ ets[tx[p].ptx] = NoET

\* What the claim says of the delivery of p: one mint job of the converted
\* amount, the balance raised by it, its two ledger rows, the row MINTED.
MintedInFull(p) ==
    LET x == tx[p].ptx
        A == tx[p].ets[x].amount_pkr
        u == pkr_to_units(A) IN
    /\ last'.out = "ok"
    /\ \E j \in NewJobs :
          /\ NewJobs = {j}
          /\ j = [id |-> j.id] @@ NewJob("mint", u, x, BankKey(x))
          /\ ledger' = ledger (+) BagOfSeq(MintLedgerRows(u, j.id))
    /\ tb' = tb + u
    /\ ets' = [ets EXCEPT ![x] = [status |-> "MINTED", direction |-> "credit",
                                  amount_pkr |-> A]]

RedeemChecked(p) == pc[p] = "r_lock" /\ pc'[p] # "r_lock"

\* The redeem of p, which passed its balance check, ends in this step.
RedeemEnds(p) ==
    /\ tx[p].op = "redeem"
    /\ pc[p] \in {"r_create", "commit"}
    /\ pc'[p] = "idle"

\* What the claim says of the redeem of p: one burn job of its amount with
\* the mirrored ledger pair, the balance lowered by the amount, and one
\* wallet debit of units_to_pkr of it.
RedeemedInFull(p) ==
    LET u == tx[p].amt IN
    /\ last'.out = "ok"
    /\ \E j \in NewJobs :
          /\ NewJobs = {j}
          /\ j = [id |-> j.id] @@ NewJob("burn", u, NoRef, tx[p].key)
          /\ last'.job = j.id
          /\ ledger' = ledger (+) BagOfSeq(BurnLedgerRows(u, j.id))
    /\ tb' = tb - u
    /\ walletTxs' = Append(walletTxs,
          [provider_tx_id |-> WalletTxId(Len(walletTxs) + 1),
           direction |-> "debit", amount_pkr |-> units_to_pkr(u)])
    /\ walletBal' = walletBal - units_to_pkr(u).coef

\* C23: a redeem of u units with 0 < u <= B, B the TokenBalance read under
\* the lock, and a key no job carries (or no key) passes the balance check,
\* and ends with TokenBalance at B - u, exactly one burn ChainJob of u units
\* with its ledger pair (user_token credit, issuer_token debit) and a wallet
\* debit of units_to_pkr(u); 250000 units against 1000000000 leave
\* 999750000 and debit 0.25.
C23_RedeemWithinBalance ==
    /\ [](/\ units_to_pkr(250000) = Dec(25, 2)
          /\ BalanceAfterBurn(1000000000, 250000) = 999750000)
    /\ [][\A p \in Procs :
             (RedeemChecked(p) /\ 0 < tx[p].amt /\ tx[p].amt <= tb) =>
                 /\ pc'[p] = "r_create"
                 /\ tx'[p].calls = 1
                 /\ tx'[p].tbObj = tb]_vars
    /\ [][\A p \in Procs :
             (RedeemEnds(p) /\ 0 < tx[p].amt) =>
                 /\ tx[p].amt <= tb
                 /\ RedeemedInFull(p)]_vars

\* Half of the starting balance has been redeemed with the key r1, and the
\* wallet has been debited 0.01.
C23_Witness ==
    /\ last.op = "redeem" /\ last.out = "ok" /\ last.key = OwnKey("p1")
    /\ tb = StartBalance - pkr_to_units(Dec(1, 2))
    /\ walletBal = StartCredit.coef - 1
    /\ Len(walletTxs) = 2
    /\ \E j \in JobsOf(DemoUser, "burn") : j.id = last.job

\* The payout attempt of the chainhook request of p ends in this step.
HookAttempted(p) == hpc[p] = "attempt" /\ hpc'[p] # "attempt"

\* The rows of a pair after the step.
JobsAfter(pair) == {j \in payouts' : j.event = pair}
EventsAfter(pair) == {w \in events' : <<w.txid, w.event_index>> = pair}

\* C24: a burn event whose pair was not stored before and whose wallet
\* debit succeeds leaves exactly one PayoutJob for the pair, with amount_pkr
\* units_to_pkr(u), status SUCCESS, attempts 1, no last_error and the
\* reference the debit returned; exactly one wallet debit of that amount;
\* and the event consumed.  12345 units are 0.01.
C24_FirstBurnPaidOnce ==
    /\ [](units_to_pkr(12345) = Dec(1, 2))
    /\ [][\A p \in Procs :
             (HookAttempted(p) /\ walletTxs' # walletTxs) =>
                 \E v \in hreq[p].ev :
                    LET pair == <<v.txid, v.event_index>>
                        ref == WalletTxId(Len(walletTxs) + 1)
                        amount == units_to_pkr(v.amount_units) IN
                    /\ ~EventStored(pair)
                    /\ JobsAfter(pair) =
                          {[event |-> pair, user |-> v.user,
                            amount_pkr |-> amount, status |-> "SUCCESS",
                            attempts |-> 1, payout_ref |-> ref,
                            last_error |-> ""]}
                    /\ walletTxs' = Append(walletTxs,
                          [provider_tx_id |-> ref, direction |-> "debit",
                           amount_pkr |-> amount])
                    /\ walletBal' = walletBal - amount.coef
                    /\ debits[pair] = 0 /\ debits'[pair] = 1
                    /\ EventsAfter(pair) = {[v EXCEPT !.consumed = TRUE]}]_vars

\* The event (T1, 0) of 12345 units is consumed, its job paid 0.01 at the
\* first attempt, and the wallet holds the one debit.
C24_Witness ==
    /\ \E j \in payouts :
          /\ j.event = <<"T1", 0>>
          /\ j.status = "SUCCESS" /\ j.attempts = 1
          /\ j.amount_pkr = Dec(1, 2) /\ j.payout_ref = WalletTxId(1)
    /\ \E v \in events :
          <<v.txid, v.event_index>> = <<"T1", 0>> /\ v.consumed
    /\ debits[<<"T1", 0>>] = 1
    /\ Len(walletTxs) = 1 /\ walletBal = -1

\* perform_mint_for_external_tx, run for the delivery of p, finds at its
\* ChainJob.objects.create that a committed job carries its key, and ends.
BankLosesKey(p) ==
    /\ pc[p] = "b_create"
    /\ pc'[p] # "b_create"
    /\ KeyUsed(tx[p].key)

\* C25: when perform_mint_for_external_tx cannot create its ChainJob because
\* a job already carries the key bank:<provider_tx_id>, the delivery is
\* answered with success and the existing job, and TokenBalance and the
\* ledger stay as they were.
C25_LoserReturnsExistingJob ==
    [][\A p \in Procs :
          BankLosesKey(p) =>
              /\ last'.op = "bank"
              /\ last'.out = "ok"
              /\ last'.job = JobByKey(tx[p].key).id
              /\ UNCHANGED <<tb, ledger>>]_vars

\* What the code does in that case: the delivery is answered 400, and no
\* table changes.
C25_LoserFailsWhole ==
    [][\A p \in Procs :
          BankLosesKey(p) =>
              /\ last' = Response("bank", tx[p].key, "error400", 0, 1)
              /\ UNCHANGED db]_vars

\* The step leaves the job of a failed attempt on `job` and the event v.
FailedAs(job, v) ==
    /\ JobsAfter(job.event) =
          {[job EXCEPT !.attempts = @ + 1, !.status = "FAILED_RETRYABLE",
                       !.last_error = "error"]}
    /\ EventsAfter(job.event) = {v}
    /\ ~v.consumed
    /\ UNCHANGED <<walletTxs, walletBal, debits>>

\* The step leaves the job of a successful attempt on `job`, with its debit.
PaidAs(job, v) ==
    LET ref == WalletTxId(Len(walletTxs) + 1) IN
    /\ JobsAfter(job.event) =
          {[job EXCEPT !.attempts = @ + 1, !.status = "SUCCESS",
                       !.last_error = "", !.payout_ref = ref]}
    /\ EventsAfter(job.event) = {[v EXCEPT !.consumed = TRUE]}
    /\ walletTxs' = Append(walletTxs,
          [provider_tx_id |-> ref, direction |-> "debit",
           amount_pkr |-> job.amount_pkr])
    /\ debits' = [debits EXCEPT ![job.event] = 1]

\* C26: an attempt whose wallet debit fails leaves the PayoutJob
\* FAILED_RETRYABLE with last_error the error text and attempts one higher,
\* payout_ref as it was and the event unconsumed, with no wallet row; and
\* process_payout_for_onchain_event invoked again on a FAILED_RETRYABLE job
\* attempts the debit again: attempts goes up by one more, and the job ends
\* paid, with its debit, or FAILED_RETRYABLE again.
C26_FailedPayoutRetryable ==
    [][/\ \A p \in Procs :
             (HookAttempted(p) /\ walletTxs' = walletTxs) =>
                 \E v \in hreq[p].ev, job \in hreq[p].job :
                    /\ job.attempts = 0 /\ job.payout_ref = ""
                    /\ FailedAs(job, v)
       /\ \A job \in payouts :
             (job.status = "FAILED_RETRYABLE" /\ job \notin payouts') =>
                 \E v \in events :
                    /\ <<v.txid, v.event_index>> = job.event
                    /\ IF walletTxs' = walletTxs
                       THEN FailedAs(job, v)
                       ELSE PaidAs(job, v)]_vars

\* A job failed at its first attempt and was paid at the second, by a
\* re-invocation: one debit, the event consumed.
C26_Witness ==
    \E job \in payouts, v \in events :
        /\ <<v.txid, v.event_index>> = job.event
        /\ job.status = "SUCCESS" /\ job.attempts = 2
        /\ job.payout_ref = WalletTxId(1)
        /\ v.consumed
        /\ debits[job.event] = 1

\* A job has failed twice: at its first attempt and at a re-invocation.
FailedTwice ==
    \E job \in payouts :
        /\ job.status = "FAILED_RETRYABLE" /\ job.attempts = 2
        /\ job.last_error = "error" /\ job.payout_ref = ""

\* C27: a redeem of zero or fewer units ends at its balance check with a
\* validation error, with no burn call made and no table changed.
C27_NonPositiveRedeemRejected ==
    [][\A p \in Procs :
          (RedeemChecked(p) /\ tx[p].amt <= 0) =>
              /\ pc'[p] = "idle"
              /\ last'.op = "redeem"
              /\ last'.out \notin {"ok", "none"}
              /\ last'.calls = 0
              /\ UNCHANGED db]_vars

\* C27, on the tables: no burn ChainJob of zero or fewer units is ever
\* committed.
NoNonPositiveBurn ==
    \A j \in JobsOf(DemoUser, "burn") : j.amount_units > 0

\* The request of p calls the chain mint in this step.
MintCalled(p, ops) ==
    /\ tx'[p].op \in ops
    /\ tx'[p].calls > tx[p].calls

\* C28: no bank delivery and no mint-on-demand calls the chain mint for an
\* ExternalTransaction whose amount converts to zero or fewer units, and no
\* mint ChainJob of zero or fewer units is committed.
C28_ZeroUnitsMintRejected ==
    /\ [](\A j \in JobsOf(DemoUser, "mint") : j.amount_units > 0)
    /\ [][\A p \in Procs :
             MintCalled(p, {"bank", "mint"}) => tx'[p].amt > 0]_vars

\* The half of it that holds: perform_mint_for_external_tx, the mint of a
\* bank delivery, is never called with zero or fewer units.
BankMintRejectsZeroUnits ==
    [][\A p \in Procs : MintCalled(p, {"bank"}) => tx'[p].amt > 0]_vars

\* C29: in a redeem the burn is called only after the balance check has
\* passed under the TokenBalance lock, the ChainJob is created only after
\* the burn, the balance lowered only after the job, the ledger pair written
\* only after the balance, and the wallet debited only after the ledger
\* pair; a redeem that is about to commit has made all of these steps.
C29_RedeemStepsInOrder ==
    \A p \in Procs :
        tx[p].op = "redeem" =>
            /\ tx[p].calls > 0 =>
                  /\ tbLock = p
                  /\ tx[p].tbObj = tb
                  /\ ~InsufficientBalance(tb, tx[p].amt)
            /\ tx[p].jobs # << >> => tx[p].calls > 0
            /\ tx[p].tb # {} => tx[p].jobs # << >>
            /\ tx[p].ledger # << >> => tx[p].tb # {}
            /\ tx[p].wtxs # << >> => tx[p].ledger # << >>
            /\ pc[p] = "commit" => tx[p].wtxs # << >>

\* A redeem has burned, created its job, lowered the balance and written
\* the ledger pair, and has not yet debited the wallet; the other worker's
\* redeem waits for the lock.
C29_Witness ==
    /\ tx["p1"].op = "redeem"
    /\ tx["p1"].calls = 1
    /\ tx["p1"].ledger # << >>
    /\ tx["p1"].wtxs = << >>
    /\ pc["p2"] = "r_lock"

\* The ingest_since run of p ends in this step.
IngestEnds(p) ==
    /\ tx[p].op = "ingest"
    /\ pc[p] # "idle"
    /\ pc'[p] = "idle"

\* The provider transactions of the wallet log, and the row of one.
LogIds == {walletTxs[i].provider_tx_id : i \in DOMAIN walletTxs}
LogRow(x) ==
    walletTxs[CHOOSE i \in DOMAIN walletTxs : walletTxs[i].provider_tx_id = x]

\* The ExternalTransaction rows a step records.
NewEts == {x \in PTX : ets[x] = NoET /\ ets'[x] # NoET}

\* C30: a run of ingest_since leaves every recorded ExternalTransaction as
\* it is and records each provider transaction of the wallet log that was
\* not recorded, once and with the log's direction and amount; it mints
\* exactly the credits among the rows it records, one job each, and no
\* debit; a run that records nothing reports ingested = 0 and minted = 0
\* and changes no table, and so does every run that ends when the whole log
\* is recorded already.
C30_IngestIdempotent ==
    [][\A p \in Procs :
          IngestEnds(p) =>
              /\ \A x \in PTX : ets[x] # NoET => ets'[x] = ets[x]
              /\ \A x \in NewEts :
                    /\ x \in LogIds
                    /\ ets'[x] = [status |-> "RECEIVED",
                                  direction |-> LogRow(x).direction,
                                  amount_pkr |-> LogRow(x).amount_pkr]
                    /\ Cardinality({j \in NewJobs : j.ref_external_tx = x})
                          = IF ets'[x].direction = "credit" THEN 1 ELSE 0
              /\ \A j \in NewJobs :
                    /\ j.job_type = "mint"
                    /\ j.ref_external_tx \in NewEts
                    /\ j.amount_units
                          = pkr_to_units(ets'[j.ref_external_tx].amount_pkr)
              /\ last'.out = "ok" => last'.calls = Cardinality(NewJobs)
              /\ NewEts = {} =>
                    /\ UNCHANGED db
                    /\ last'.out = "ok" => last'.calls = 0
              /\ (\A x \in LogIds : ets[x] # NoET) => UNCHANGED db]_vars

\* A credit and a debit of the wallet log are recorded, the credit is
\* minted and the debit is not, and a further run has just reported
\* nothing new.
C30_Witness ==
    /\ last = Response("ingest", NoKey, "ok", 0, 0)
    /\ \E x, y \in LogIds :
          /\ ets[x].direction = "credit"
          /\ ets[y].direction = "debit"
          /\ \E j \in JobsOf(DemoUser, "mint") : j.ref_external_tx = x
          /\ \A j \in chainJobs : j.ref_external_tx # y
    /\ \A x \in LogIds : ets[x] # NoET

\* C31: no step modifies or removes a LedgerEntry: every row of the ledger
\* is in the ledger after the step, in at least as many copies.
C31_LedgerAppendOnly ==
    [][\A r \in BagToSet(ledger) :
          CopiesIn(r, ledger') >= CopiesIn(r, ledger)]_vars

\* The rows of a mint and of a burn are on the ledger, and a redelivery of
\* the minted bank transaction has been answered since.
C31_Witness ==
    /\ BagCardinality(ledger) = 4
    /\ last.op = "bank" /\ last.out = "idempotent"
    /\ \E r \in LedgerRows : r.ref_type = "burn"

\* The wallet rows a step appends.
NewWalletTxs == SubSeq(walletTxs', Len(walletTxs) + 1, Len(walletTxs'))

\* C32: a step of a burn notification or of a payout leaves TokenBalance,
\* the ChainJob rows, the LedgerEntry rows and every ExternalTransaction as
\* they were; it removes no OnchainEvent and no PayoutJob pair, and the only
\* wallet rows it appends are debits, which lower the wallet balance.
C32_BurnNotificationFrame ==
    [][/\ UNCHANGED <<tb, chainJobs, ledger, ets>>
       /\ \A pair \in Pairs :
             /\ EventsOf(pair) # {} => EventsAfter(pair) # {}
             /\ (\E j \in payouts : j.event = pair) => JobsAfter(pair) # {}
       /\ SubSeq(walletTxs', 1, Len(walletTxs)) = walletTxs
       /\ \A i \in DOMAIN NewWalletTxs :
             /\ NewWalletTxs[i].direction = "debit"
             /\ walletBal' = walletBal - NewWalletTxs[i].amount_pkr.coef
       /\ NewWalletTxs = << >> => walletBal' = walletBal]_vars

\* Two events are stored with their jobs and the wallet was debited for both,
\* while no ChainJob, ledger row or ExternalTransaction exists and the token
\* balance is zero as at the start.
C32_Witness ==
    /\ Cardinality(events) = 2 /\ Cardinality(payouts) = 2
    /\ Len(walletTxs) = 2 /\ walletBal < 0
    /\ chainJobs = {} /\ ledger = EmptyBag /\ tb = 0
    /\ \A x \in PTX : ets[x] = NoET

\* The committed jobs that carry key k and are not of the type that requests
\* of kind op create.
OtherTypeJobs(op, k) ==
    {j \in chainJobs : j.idempotency_key = k /\ ~SameKind(op, j.job_type)}

\* C35: a redeem invoked with a key that a mint ChainJob carries, and a
\* mint-on-demand invoked with a key that a burn ChainJob carries, returns
\* that job of the other type, makes no chain call and changes no balance,
\* ledger row, ChainJob or wallet row.
C35_KeysShareOneNamespace ==
    [][\A p \in Procs, k \in ClientKeys :
          (Invoked(p, k) /\ OtherTypeJobs(last'.op, k) # {}) =>
              /\ last'.out = "ok" /\ last'.calls = 0
              /\ \E j \in OtherTypeJobs(last'.op, k) : last'.job = j.id
              /\ UNCHANGED <<db, tbLock, pc, tx, mintCalls>>]_vars

\* A mint-on-demand has just been answered with the burn job that carries
\* its key.
C35_Witness ==
    /\ last.op = "mint" /\ last.out = "ok" /\ last.calls = 0
    /\ \E j \in chainJobs :
          /\ j.idempotency_key = last.key /\ j.job_type = "burn"
          /\ last.job = j.id

\* The attempts the committed PayoutJob of a pair counts, 0 without a job.
AttemptsOf(J, pair) ==
    IF \E j \in J : j.event = pair
    THEN (CHOOSE j \in J : j.event = pair).attempts
    ELSE 0

\* The step runs process_payout_for_onchain_event on the pair up to the
\* wallet debit: for the new event of a delivery, or again for a stored
\* event whose job is not SUCCESS.
DebitAttempted(pair) ==
    \/ \E p \in Procs, ok \in BOOLEAN :
          /\ HookPayout(p, ok)
          /\ \E v \in hreq[p].ev : <<v.txid, v.event_index>> = pair
    \/ /\ \E ok \in BOOLEAN : Reinvoke(pair, ok)
       /\ \E j \in payouts : j.event = pair /\ ~AlreadyPaid(j)

\* C36: in every committed state an OnchainEvent is consumed exactly when
\* its PayoutJob is SUCCESS, no PayoutJob is PENDING and every PayoutJob
\* counts at least one attempt; and the attempts of a PayoutJob go up by one
\* in exactly the steps that attempt the wallet debit for it.
C36_PayoutBookkeeping ==
    /\ [](\A v \in events :
             /\ \E j \in payouts : j.event = <<v.txid, v.event_index>>
             /\ \A j \in payouts :
                   j.event = <<v.txid, v.event_index>> =>
                       (v.consumed <=> j.status = "SUCCESS"))
    /\ [](\A j \in payouts :
             /\ j.status # "PENDING"
             /\ j.attempts >= 1
             /\ EventsOf(j.event) # {})
    /\ [][\A pair \in Pairs :
             AttemptsOf(payouts', pair) =
                AttemptsOf(payouts, pair)
                   + (IF DebitAttempted(pair) THEN 1 ELSE 0)]_vars

\* One event is consumed with its job SUCCESS, another is not consumed with
\* its job FAILED_RETRYABLE after one attempt.
C36_Witness ==
    /\ \E v \in events, j \in payouts :
          /\ j.event = <<v.txid, v.event_index>>
          /\ v.consumed /\ j.status = "SUCCESS"
    /\ \E v \in events, j \in payouts :
          /\ j.event = <<v.txid, v.event_index>>
          /\ ~v.consumed /\ j.status = "FAILED_RETRYABLE" /\ j.attempts = 1

\* C33: in every state the TokenBalance of the user is zero or more.
C33_BalanceNeverNegative == tb >= 0

\* The TokenBalance rows of a user, committed or inserted by a request that
\* is still running.
BalanceRows(u) ==
    tbRows[u]
      + Cardinality({p \in Procs : work[p].user = u /\ work[p].newTb})

\* C34: each user has at most one TokenBalance row, whatever seed_demo_user
\* calls and first mints run together.
C34_OneBalanceRowPerUser == \A u \in Users : BalanceRows(u) <= 1

\* A first mint for a user without a row started while another one was
\* running, and found the row the other one had inserted; and the demo user
\* has its one row.
C34_Witness ==
    /\ \E p \in Procs :
          /\ work[p].user = OtherUser /\ work[p].pc = "commit"
          /\ work[p].raced /\ ~work[p].newTb /\ ~work[p].newStub
    /\ tbRows[OtherUser] = 1
    /\ tbRows[DemoUser] = 1

\* Rows of two different jobs are on the ledger, with a nonzero total.
C8_Witness ==
    /\ Cardinality({r.ref_id : r \in LedgerRows}) = 2
    /\ SumRows(ledger, SideRows("debit")) > 0

====
